---- MODULE Spec2Model ----
(***************************************************************************)
(* A model of the SNI device drivers of FoxLisk/sni:                       *)
(*   - the NWA (emunwa) client: request framing, the reply parser, the     *)
(*     single-command handlers and the grouped memory reads and writes;    *)
(*   - the FX Pak Pro memory-domain range checks.                          *)
(* Bytes are their integer codes, byte strings are sequences of codes.     *)
(***************************************************************************)
EXTENDS Integers, Sequences, FiniteSets, TLC

VARIABLES
  call,   \* the handler invoked and its arguments
  peer,   \* the peer's replies, one byte string for each request in turn
  rx,     \* the reply bytes sent and not yet taken from the client's reader
  tx,     \* the bytes written to the connection, in order
  nreq,   \* the number of requests written to the connection
  ret,    \* what the handler returned
  pc,     \* "ready" before the call, "returned" after it
  client  \* the client's cached core, platform and domains

vars == <<call, peer, rx, tx, nreq, ret, pc, client>>

(***************************************************************************)
(* Byte codes the client code names.                                       *)
(***************************************************************************)
NUL == 0
LF == 10
CR == 13
COLON == 58
PrefixB == 98

(* "error", the key SendCommandWaitReply looks up in the first item *)
KeyError == <<101, 114, 114, 111, 114>>
(* "emunwa: error=", the text the handlers put before the reply's error text *)
ErrPrefix == <<101, 109, 117, 110, 119, 97, 58, 32, 101, 114, 114, 111, 114, 61>>

(***************************************************************************)
(* Bounds of the inputs.                                                   *)
(***************************************************************************)
MaxLines == 3
MaxBinTail == 7
MaxRawLen == 4
MaxArgLen == 2
MaxOver == 2
MaxRequests == 3
MaxDomains == 2
MaxShort == 2

(***************************************************************************)
(* Helpers on byte strings.                                                *)
(***************************************************************************)
SeqsUpTo(S, n) == UNION {[1..k -> S] : k \in 0..n}

Drop(s, n) == SubSeq(s, n + 1, Len(s))

(* F of a value that is worked out once, however often F uses it *)
Let(v, F(_)) == F(v)

RECURSIVE Concat(_)
Concat(ss) == IF ss = <<>> THEN <<>> ELSE Head(ss) \o Concat(Tail(ss))

(* the value of a byte string read least significant byte first *)
RECURSIVE LittleEndian(_)
LittleEndian(bs) ==
  IF bs = <<>> THEN 0 ELSE bs[1] + 256 * LittleEndian(Tail(bs))

(* encoding/binary BigEndian: the value of a byte string *)
RECURSIVE BigEndian(_)
BigEndian(bs) ==
  IF bs = <<>> THEN 0
  ELSE BigEndian(SubSeq(bs, 1, Len(bs) - 1)) * 256 + bs[Len(bs)]

(* binary.Write(b, binary.BigEndian, uint32(n)): the four bytes of n *)
PutUint32(n) ==
  << (n \div 16777216) % 256, (n \div 65536) % 256, (n \div 256) % 256, n % 256 >>

(***************************************************************************)
(* Errors: nil, or an error of one of three classes.  "fatal" and          *)
(* "nonfatal" are the devices.DeviceError classes built by FatalError and  *)
(* NonFatalError; "plain" is an error made by fmt.Errorf that carries no   *)
(* class.                                                                  *)
(***************************************************************************)
NoError == [kind |-> "nil", text |-> <<>>]

FatalError(text) == [kind |-> "fatal", text |-> text]

NonFatalError(text) == [kind |-> "nonfatal", text |-> text]

PlainError(text) == [kind |-> "plain", text |-> text]

(***************************************************************************)
(* parseResponse.                                                          *)
(***************************************************************************)
EmptyItem == [k \in {} |-> <<>>]

HasKey(item, key) == key \in DOMAIN item

PutKey(item, key, value) ==
  [k \in (DOMAIN item) \cup {key} |-> IF k = key THEN value ELSE item[k]]

(* bufio.ScanLines drops one trailing carriage return of a line *)
dropCR(l) ==
  IF Len(l) > 0 /\ l[Len(l)] = CR THEN SubSeq(l, 1, Len(l) - 1) ELSE l

(* index of the first byte b at or after from, 0 when there is none *)
IndexFrom(s, b, from) ==
  IF \E i \in from..Len(s) : s[i] = b
  THEN CHOOSE i \in from..Len(s) : s[i] = b /\ \A j \in from..(i - 1) : s[j] # b
  ELSE 0

(* strings.SplitN(l, ":", 2) and the key, value taken from the pair *)
SplitKey(l) ==
  LET p == IndexFrom(l, COLON, 1)
  IN IF p = 0 THEN l ELSE SubSeq(l, 1, p - 1)

(* a split that leaves the separator in the value *)
SplitValueKeepsColon(l) ==
  LET p == IndexFrom(l, COLON, 1)
  IN IF p = 0 THEN <<>> ELSE SubSeq(l, p, Len(l))

SplitValue(l) ==
  LET p == IndexFrom(l, COLON, 1)
  IN IF p = 0 THEN <<>> ELSE SubSeq(l, p + 1, Len(l))

(* a scanner loop in which a repeated key overwrites the value in the current
   item and starts no new item *)
RECURSIVE scanItemsOverwrite(_, _, _, _)
scanItemsOverwrite(s, pos, ascii, item) ==
  IF pos > Len(s)
  THEN [ascii |-> ascii, item |-> item, used |-> Len(s)]
  ELSE
    LET e == IndexFrom(s, LF, pos)
        l == dropCR(SubSeq(s, pos, IF e = 0 THEN Len(s) ELSE e - 1))
        next == IF e = 0 THEN Len(s) + 1 ELSE e + 1
    IN IF l = <<>>
       THEN [ascii |-> ascii, item |-> item, used |-> next - 1]
       ELSE scanItemsOverwrite(s, next, ascii, PutKey(item, SplitKey(l), SplitValue(l)))

(* the scanner loop: s holds every byte the peer delivers, pos is the next
   unread byte.  Scan stops at the end of the data (EOF or deadline; the
   scanner's error is not looked at) after handing out what is left as a
   last line. *)
RECURSIVE scanItems(_, _, _, _)
scanItems(s, pos, ascii, item) ==
  IF pos > Len(s)
  THEN [ascii |-> ascii, item |-> item, used |-> Len(s)]
  ELSE
    Let(IndexFrom(s, LF, pos), LAMBDA e :
    Let(dropCR(SubSeq(s, pos, IF e = 0 THEN Len(s) ELSE e - 1)), LAMBDA l :
    Let(IF e = 0 THEN Len(s) + 1 ELSE e + 1, LAMBDA next :
      IF l = <<>>
      THEN [ascii |-> ascii, item |-> item, used |-> next - 1]
      ELSE IF HasKey(item, SplitKey(l))
           THEN scanItems(s, next, Append(ascii, item),
                          PutKey(EmptyItem, SplitKey(l), SplitValue(l)))
           ELSE scanItems(s, next, ascii, PutKey(item, SplitKey(l), SplitValue(l))))))

ParsedNothing(err, used) ==
  [binNil |-> TRUE, bin |-> <<>>, asciiNil |-> TRUE, ascii |-> <<>>,
   err |-> err, used |-> used, form |-> "none"]

parseResponse(s) ==
  IF Len(s) = 0 THEN ParsedNothing(FatalError(<<>>), 0)
  ELSE IF s[1] = NUL
  THEN
    IF Len(s) < 5 THEN ParsedNothing(FatalError(<<>>), Len(s))
    ELSE
      LET size == BigEndian(SubSeq(s, 2, 5))
      IN IF Len(s) < 5 + size
         THEN [binNil |-> FALSE, bin |-> <<>>, asciiNil |-> TRUE, ascii |-> <<>>,
               err |-> FatalError(<<>>), used |-> Len(s), form |-> "none"]
         ELSE [binNil |-> FALSE, bin |-> SubSeq(s, 6, 5 + size),
               asciiNil |-> TRUE, ascii |-> <<>>,
               err |-> NoError, used |-> 5 + size, form |-> "binary"]
  ELSE IF s[1] # LF
  THEN ParsedNothing(PlainError(<<s[1]>>), 1)
  ELSE
    Let(scanItems(s, 2, <<>>, EmptyItem), LAMBDA sc :
      [binNil |-> TRUE, bin |-> <<>>, asciiNil |-> FALSE,
       ascii |-> IF sc.item # EmptyItem THEN Append(sc.ascii, sc.item) ELSE sc.ascii,
       err |-> NoError, used |-> sc.used, form |-> "ascii"])

(***************************************************************************)
(* Inputs: the reply bytes a peer delivers before EOF or the deadline.     *)
(***************************************************************************)
LineSet ==
  { <<97>>, <<97, 58, 98>>, <<98, 58>>, <<58, 97>>, <<97, 58, 98, 13>>, <<13>>,
    KeyError \o <<58, 98, 97, 100>>, KeyError }

JoinLines(ls) == Concat([i \in 1..Len(ls) |-> ls[i] \o <<LF>>])

AsciiReplies ==
  { <<LF>> \o JoinLines(ls) \o <<LF>> : ls \in SeqsUpTo(LineSet, MaxLines) }

BinaryReplies == { <<NUL>> \o t : t \in SeqsUpTo({0, 1, 2}, MaxBinTail) }

RawReplies == SeqsUpTo({NUL, LF, CR, COLON, 97}, MaxRawLen)

(* "id:1\nname:foo\n\nid:2\nname:bar\n\n" *)
LiteralReply ==
  <<105, 100, 58, 49, 10, 110, 97, 109, 101, 58, 102, 111, 111, 10, 10,
    105, 100, 58, 50, 10, 110, 97, 109, 101, 58, 98, 97, 114, 10, 10>>

(* "\nid:1\nname:foo\nid:2\nname:bar\n\n" *)
FramedReply ==
  <<10, 105, 100, 58, 49, 10, 110, 97, 109, 101, 58, 102, 111, 111, 10,
    105, 100, 58, 50, 10, 110, 97, 109, 101, 58, 98, 97, 114, 10, 10>>

(* "\x00\x00\x00\x00\x04ABCD" *)
BinABCD == <<0, 0, 0, 0, 4, 65, 66, 67, 68>>

Replies ==
  AsciiReplies \cup BinaryReplies \cup RawReplies
    \cup {LiteralReply, FramedReply, BinABCD}

(***************************************************************************)
(* The connection.  The peer answers the k-th request it receives with     *)
(* peer[k] and stays silent when it has no k-th reply; rx holds the reply  *)
(* bytes on their way to, or waiting in, the client's reader.  A read      *)
(* blocks until its bytes are there; when rx runs out the read ends with   *)
(* EOF or the deadline.                                                    *)
(***************************************************************************)
Min(a, b) == IF a < b THEN a ELSE b

Conn(r, t, n) == [rx |-> r, tx |-> t, nreq |-> n]

(* writeWithDeadline of bytes that do not complete a request *)
Write(io, bytes) == [io EXCEPT !.tx = @ \o bytes]

(* writeWithDeadline of the bytes that complete a request: the peer answers *)
Request(io, bytes) ==
  Conn(io.rx \o (IF io.nreq < Len(peer) THEN peer[io.nreq + 1] ELSE <<>>),
       io.tx \o bytes, io.nreq + 1)

(* readResponse: a binary reply takes its own bytes from the reader; the
   bufio.Scanner of an ASCII reply reads ahead and keeps what it read, over
   being how many of the bytes behind the reply's empty line it took *)
Read(io, over) ==
  Let(parseResponse(io.rx), LAMBDA p :
    [io |-> [io EXCEPT !.rx = Drop(@, p.used + (IF p.form = "ascii"
                                                THEN Min(over, Len(io.rx) - p.used)
                                                ELSE 0))],
     p |-> p])

(***************************************************************************)
(* The handlers.                                                           *)
(***************************************************************************)
Returned(bin, binNil, ascii, asciiNil, err) ==
  [bin |-> bin, binNil |-> binNil, ascii |-> ascii, asciiNil |-> asciiNil, err |-> err]

NotReturned == Returned(<<>>, TRUE, <<>>, TRUE, NoError)

Outcome(io, r) == [io |-> io, ret |-> r]

(* the handler's effect on the variables *)
Return(out) ==
  /\ rx' = out.io.rx
  /\ tx' = out.io.tx
  /\ nreq' = out.io.nreq
  /\ ret' = out.ret
  /\ pc' = "returned"

Here == Conn(rx, tx, nreq)

(* parseResponse on a reader holding rx *)
ParseResponse ==
  /\ pc = "ready"
  /\ call.op = "parseResponse"
  /\ \E over \in 0..MaxOver :
       \E rd \in {Read(Here, over)} :
         Return(Outcome(rd.io,
           Returned(rd.p.bin, rd.p.binNil, rd.p.ascii, rd.p.asciiNil, rd.p.err)))
  /\ UNCHANGED <<call, peer, client>>

(* the error a handler makes of an ASCII reply whose first item has "error" *)
HasErrorReply(p) ==
  /\ ~p.asciiNil
  /\ Len(p.ascii) > 0
  /\ HasKey(p.ascii[1], KeyError)

ErrorReply(p) == PlainError(ErrPrefix \o p.ascii[1][KeyError])

(* the text-only request *)
textFrame(cmd) == cmd \o <<LF>>

(* the request with a binary argument *)
binaryFrame(cmd, arg) ==
  <<PrefixB>> \o cmd \o <<LF>> \o <<NUL>> \o PutUint32(Len(arg)) \o arg

WriteFailed(io) == Outcome(io, Returned(<<>>, TRUE, <<>>, TRUE, FatalError(<<>>)))

sendCommandWaitReply(io, cmd, conn, over) ==
  IF conn = "down" THEN WriteFailed(io)
  ELSE
    Let(Read(Request(io, textFrame(cmd)), over), LAMBDA rd :
    Let(rd.p, LAMBDA p :
      IF p.err.kind # "nil"
      THEN Outcome(rd.io, Returned(p.bin, p.binNil, p.ascii, p.asciiNil, p.err))
      ELSE IF HasErrorReply(p)
      THEN Outcome(rd.io, Returned(p.bin, p.binNil, p.ascii, p.asciiNil, ErrorReply(p)))
      ELSE Outcome(rd.io, Returned(p.bin, p.binNil, p.ascii, p.asciiNil, NoError))))

SendCommandWaitReply ==
  /\ pc = "ready"
  /\ call.op = "SendCommandWaitReply"
  /\ \E over \in 0..MaxOver :
       Return(sendCommandWaitReply(Here, call.cmd, call.conn, over))
  /\ UNCHANGED <<call, peer, client>>

sendCommandBinaryWaitReply(io, cmd, arg, conn, over) ==
  IF conn = "down" THEN WriteFailed(io)
  ELSE
    Let(Read(Request(io, binaryFrame(cmd, arg)), over), LAMBDA rd :
    Let(rd.p, LAMBDA p :
      IF HasErrorReply(p)
      THEN Outcome(rd.io, Returned(p.bin, p.binNil, p.ascii, p.asciiNil, ErrorReply(p)))
      ELSE Outcome(rd.io, Returned(p.bin, p.binNil, p.ascii, p.asciiNil, p.err))))

SendCommandBinaryWaitReply ==
  /\ pc = "ready"
  /\ call.op = "SendCommandBinaryWaitReply"
  /\ \E over \in 0..MaxOver :
       Return(sendCommandBinaryWaitReply(Here, call.cmd, call.arg, call.conn, over))
  /\ UNCHANGED <<call, peer, client>>

(***************************************************************************)
(* Grouped memory reads and writes.                                        *)
(***************************************************************************)
(* fmt's %x: lower-case hexadecimal digits without padding *)
HexDigit(d) == IF d < 10 THEN 48 + d ELSE 87 + d

RECURSIVE Hex(_)
Hex(n) == IF n < 16 THEN <<HexDigit(n)>> ELSE Hex(n \div 16) \o <<HexDigit(n % 16)>>

(* ";$%x;$%x" of an offset and a size *)
regionListing(offset, size) == <<59, 36>> \o Hex(offset) \o <<59, 36>> \o Hex(size)

(* "CORE_READ " and "bCORE_WRITE " *)
CoreRead == <<67, 79, 82, 69, 95, 82, 69, 65, 68, 32>>

CoreWrite == <<98, 67, 79, 82, 69, 95, 87, 82, 73, 84, 69, 32>>

(* The canonical regions of the pak address space: name and first address. *)
MemoryTypes ==
  << [name |-> <<67, 65, 82, 84, 82, 79, 77>>, start |-> 0],
     [name |-> <<67, 65, 82, 84, 82, 65, 77>>, start |-> \hE00000],
     [name |-> <<87, 82, 65, 77>>, start |-> \hF50000],
     [name |-> <<86, 82, 65, 77>>, start |-> \hF70000],
     [name |-> <<65, 80, 85, 82, 65, 77>>, start |-> \hF80000],
     [name |-> <<67, 71, 82, 65, 77>>, start |-> \hF90000],
     [name |-> <<79, 65, 77>>, start |-> \hF90200] >>

(* mapping.MemoryTypeFor of an address of the FxPakPro address space: the
   region the address lies in, the pak address, and the offset into the region *)
MemoryTypeFor(a) ==
  Let(CHOOSE i \in 1..Len(MemoryTypes) :
        /\ MemoryTypes[i].start <= a.address
        /\ \A k \in 1..Len(MemoryTypes) :
             MemoryTypes[k].start <= a.address => MemoryTypes[k].start <= MemoryTypes[i].start,
      LAMBDA region :
        [memType |-> MemoryTypes[region].name, pakAddress |-> a.address,
         offset |-> a.address - MemoryTypes[region].start])

DeviceAddress(a) ==
  [address |-> MemoryTypeFor(a).pakAddress, space |-> "FxPakPro", mapping |-> a.mapping]

(* memTypes: the memory types of the requests in the order they first appear *)
RECURSIVE memTypesOf(_, _)
memTypesOf(reqs, seen) ==
  IF reqs = <<>> THEN seen
  ELSE Let(MemoryTypeFor(Head(reqs).requestAddress).memType, LAMBDA t :
         memTypesOf(Tail(reqs),
           IF \E i \in 1..Len(seen) : seen[i] = t THEN seen ELSE Append(seen, t)))

(* readGroups[memType]: the requests of one memory type, by their index, in
   request order *)
groupOf(reqs, t) ==
  SelectSeq([j \in 1..Len(reqs) |-> j],
            LAMBDA j : MemoryTypeFor(reqs[j].requestAddress).memType = t)

Zeros(n) == [i \in 1..n |-> 0]

(* copy(dst, src) *)
copy(dst, src) == [i \in 1..Len(dst) |-> IF i <= Len(src) THEN src[i] ELSE dst[i]]

(* a region copy that leaves out the partial read *)
copyRegionFullOnly(buf, bin, offset, size) ==
  IF offset >= Len(bin) THEN buf
  ELSE IF size > Len(bin) - offset THEN buf
  ELSE copy(buf, SubSeq(bin, offset + 1, offset + size))

(* MultiReadMemory's copy of one region out of a group's reply *)
copyRegion(buf, bin, offset, size) ==
  LET sz == Len(bin) - offset
  IN IF offset >= Len(bin) THEN buf
     ELSE IF size > sz THEN copy(buf, SubSeq(bin, offset + 1, offset + sz))
     ELSE copy(buf, SubSeq(bin, offset + 1, offset + size))

RECURSIVE copyRegions(_, _, _, _, _)
copyRegions(data, bin, reads, js, offset) ==
  IF js = <<>> THEN data
  ELSE LET j == Head(js)
       IN copyRegions([data EXCEPT ![j] = copyRegion(@, bin, offset, reads[j].size)],
                      bin, reads, Tail(js), offset + reads[j].size)

(* a command that lists the regions of a group last request first *)
coreReadCommandReversed(reads, t) ==
  Let(groupOf(reads, t), LAMBDA js :
    CoreRead \o t
      \o Concat([k \in 1..Len(js) |->
           regionListing(MemoryTypeFor(reads[js[Len(js) + 1 - k]].requestAddress).offset,
                         reads[js[Len(js) + 1 - k]].size)])
      \o <<LF>>)

(* the CORE_READ command of one memory type *)
coreReadCommand(reads, t) ==
  Let(groupOf(reads, t), LAMBDA js :
    CoreRead \o t
      \o Concat([k \in 1..Len(js) |->
           regionListing(MemoryTypeFor(reads[js[k]].requestAddress).offset,
                         reads[js[k]].size)])
      \o <<LF>>)

RECURSIVE writeReadCommands(_, _, _, _)
writeReadCommands(io, reads, types, g) ==
  IF g > Len(types) THEN io
  ELSE writeReadCommands(Request(io, coreReadCommand(reads, types[g])), reads, types, g + 1)

(* the loop that reads the replies back, from group g on *)
RECURSIVE readReadReplies(_, _, _, _, _, _)
readReadReplies(io, reads, types, g, data, over) ==
  IF g > Len(types) THEN [io |-> io, data |-> data, err |-> NoError]
  ELSE
    Let(Read(io, over), LAMBDA rd :
      IF rd.p.err.kind # "nil" THEN [io |-> rd.io, data |-> data, err |-> rd.p.err]
      ELSE IF ~rd.p.asciiNil
      THEN [io |-> rd.io, data |-> data, err |-> PlainError(<<>>)]
      ELSE readReadReplies(rd.io, reads, types, g + 1,
             copyRegions(data, rd.p.bin, reads, groupOf(reads, types[g]), 0), over))

readResponses(reads, data) ==
  [j \in 1..Len(reads) |->
     [requestAddress |-> reads[j].requestAddress,
      deviceAddress |-> DeviceAddress(reads[j].requestAddress),
      data |-> data[j]]]

multiReadMemory(io, reads, conn, over) ==
  Let(memTypesOf(reads, <<>>), LAMBDA types :
  Let([j \in 1..Len(reads) |-> Zeros(reads[j].size)], LAMBDA blank :
    IF conn = "down" /\ types # <<>>
    THEN Outcome(io, [mrsp |-> readResponses(reads, blank), err |-> FatalError(<<>>)])
    ELSE Let(readReadReplies(writeReadCommands(io, reads, types, 1),
                             reads, types, 1, blank, over),
             LAMBDA got :
               Outcome(got.io, [mrsp |-> readResponses(reads, got.data), err |-> got.err]))))

MultiReadMemory ==
  /\ pc = "ready"
  /\ call.op = "MultiReadMemory"
  /\ \E over \in 0..MaxOver :
       Return(multiReadMemory(Here, call.reads, call.conn, over))
  /\ UNCHANGED <<call, peer, client>>

(* the two writes of one memory type: the bCORE_WRITE command, and the
   payload behind its length *)
coreWriteCommand(writes, t) ==
  Let(groupOf(writes, t), LAMBDA js :
    CoreWrite \o t
      \o Concat([k \in 1..Len(js) |->
           regionListing(MemoryTypeFor(writes[js[k]].requestAddress).offset,
                         Len(writes[js[k]].data))])
      \o <<LF>>)

RECURSIVE sizeSum(_, _)
sizeSum(writes, js) ==
  IF js = <<>> THEN 0 ELSE Len(writes[Head(js)].data) + sizeSum(writes, Tail(js))

(* a payload whose length counts the regions instead of their bytes *)
coreWritePayloadCount(writes, t) ==
  Let(groupOf(writes, t), LAMBDA js :
    <<NUL>> \o PutUint32(Len(js)) \o Concat([k \in 1..Len(js) |-> writes[js[k]].data]))

coreWritePayload(writes, t) ==
  Let(groupOf(writes, t), LAMBDA js :
    <<NUL>> \o PutUint32(sizeSum(writes, js))
      \o Concat([k \in 1..Len(js) |-> writes[js[k]].data]))

RECURSIVE writeWriteCommands(_, _, _, _)
writeWriteCommands(io, writes, types, g) ==
  IF g > Len(types) THEN io
  ELSE writeWriteCommands(
         Request(Write(io, coreWriteCommand(writes, types[g])),
                 coreWritePayload(writes, types[g])),
         writes, types, g + 1)

(* the loop that reads n replies to writes, gathering the error texts *)
RECURSIVE readWriteReplies(_, _, _, _)
readWriteReplies(io, n, errReplies, ov) ==
  IF n = 0 THEN [io |-> io, errReplies |-> errReplies, err |-> NoError]
  ELSE
    Let(Read(io, Head(ov)), LAMBDA rd :
      IF rd.p.err.kind # "nil"
      THEN [io |-> rd.io, errReplies |-> errReplies, err |-> rd.p.err]
      ELSE readWriteReplies(rd.io, n - 1,
             IF HasErrorReply(rd.p)
             THEN errReplies \o rd.p.ascii[1][KeyError] \o <<LF>>
             ELSE errReplies,
             Tail(ov)))

writeResponses(writes) ==
  [j \in 1..Len(writes) |->
     [requestAddress |-> writes[j].requestAddress,
      deviceAddress |-> DeviceAddress(writes[j].requestAddress),
      size |-> Len(writes[j].data)]]

multiWriteMemory(io, writes, conn, ov) ==
  Let(memTypesOf(writes, <<>>), LAMBDA types :
    IF conn = "down" /\ types # <<>>
    THEN Outcome(io, [mrsp |-> writeResponses(writes), err |-> FatalError(<<>>)])
    ELSE Let(readWriteReplies(writeWriteCommands(io, writes, types, 1),
                              Len(types), <<>>, ov),
             LAMBDA got :
               Outcome(got.io,
                 [mrsp |-> writeResponses(writes),
                  err |-> IF got.err.kind # "nil" THEN got.err
                          ELSE IF got.errReplies # <<>>
                          THEN NonFatalError(ErrPrefix \o got.errReplies)
                          ELSE NoError])))

MultiWriteMemory ==
  /\ pc = "ready"
  /\ call.op = "MultiWriteMemory"
  /\ \E ov \in [1..Len(memTypesOf(call.writes, <<>>)) -> 0..MaxOver] :
       Return(multiWriteMemory(Here, call.writes, call.conn, ov))
  /\ UNCHANGED <<call, peer, client>>

(***************************************************************************)
(* Discovery of the core and of its memory domains.                        *)
(***************************************************************************)
IsSpace(b) == b \in {9, 10, 11, 12, 13, 32}

RECURSIVE TrimLeft(_)
TrimLeft(s) == IF s # <<>> /\ IsSpace(Head(s)) THEN TrimLeft(Tail(s)) ELSE s

RECURSIVE TrimRight(_)
TrimRight(s) ==
  IF s # <<>> /\ IsSpace(s[Len(s)]) THEN TrimRight(SubSeq(s, 1, Len(s) - 1)) ELSE s

(* strings.TrimSpace *)
clean(s) == TrimRight(TrimLeft(s))

ToLower(s) == [i \in 1..Len(s) |-> IF s[i] >= 65 /\ s[i] <= 90 THEN s[i] + 32 ELSE s[i]]

cleanLower(s) == ToLower(clean(s))

(* m[key] of a Go map: the empty string when the key is missing *)
MapValue(item, key) == IF HasKey(item, key) THEN item[key] ELSE <<>>

getFirstValue(reply, name) == IF Len(reply) = 0 THEN <<>> ELSE MapValue(reply[1], name)

(* strconv.ParseUint(s, 10, 64) of a string of at most nine bytes *)
IsDigits(s) == s # <<>> /\ \A i \in 1..Len(s) : s[i] >= 48 /\ s[i] <= 57

RECURSIVE ParseUint(_)
ParseUint(s) ==
  IF s = <<>> THEN 0 ELSE ParseUint(SubSeq(s, 1, Len(s) - 1)) * 10 + (s[Len(s)] - 48)

(* the commands and the keys of their replies *)
CoreMemories == <<67, 79, 82, 69, 95, 77, 69, 77, 79, 82, 73, 69, 83>>

GameInfo == <<71, 65, 77, 69, 95, 73, 78, 70, 79>>

CoreCurrentInfo == <<67, 79, 82, 69, 95, 67, 85, 82, 82, 69, 78, 84, 95, 73, 78, 70, 79>>

EmulatorInfo == <<69, 77, 85, 76, 65, 84, 79, 82, 95, 73, 78, 70, 79>>

EmulationStatus == <<69, 77, 85, 76, 65, 84, 73, 79, 78, 95, 83, 84, 65, 84, 85, 83>>

KeyName == <<110, 97, 109, 101>>

KeyVersion == <<118, 101, 114, 115, 105, 111, 110>>

KeyPlatform == <<112, 108, 97, 116, 102, 111, 114, 109>>

KeyFile == <<102, 105, 108, 101>>

KeyState == <<115, 116, 97, 116, 101>>

KeySize == <<115, 105, 122, 101>>

KeyAccess == <<97, 99, 99, 101, 115, 115>>

AccessRW == <<114, 119>>

AccessR == <<114>>

AccessW == <<119>>

(* one of FetchFields' requests: skipped when not wanted or after an error *)
fetchInfo(prev, want, cmd, conn, over) ==
  IF prev.err.kind # "nil" \/ ~want
  THEN [io |-> prev.io, err |-> prev.err, info |-> <<>>]
  ELSE Let(sendCommandWaitReply(prev.io, cmd, conn, over), LAMBDA sc :
         [io |-> sc.io, err |-> sc.ret.err, info |-> sc.ret.ascii])

(* the first switch: a case without statements does nothing *)
Wants(fields, field) == \E i \in 1..Len(fields) : fields[i] = field

(* the second switch *)
fieldValue(f, gameInfo, coreInfo, emulatorInfo, emulationStatus) ==
  CASE f = "DeviceName" -> getFirstValue(emulatorInfo, KeyName)
    [] f = "DeviceVersion" -> getFirstValue(emulatorInfo, KeyVersion)
    [] f = "DeviceStatus" -> getFirstValue(emulationStatus, KeyState)
    [] f = "CoreName" -> getFirstValue(coreInfo, KeyName)
    [] f = "CoreVersion" -> getFirstValue(coreInfo, KeyVersion)
    [] f = "CorePlatform" -> getFirstValue(coreInfo, KeyPlatform)
    [] f = "RomFileName" -> getFirstValue(gameInfo, KeyFile)
    [] OTHER -> <<>>

fetchFields(io, fields, conn, over) ==
  Let(fetchInfo([io |-> io, err |-> NoError], Wants(fields, "RomFileName"),
                GameInfo, conn, over), LAMBDA gameInfo :
  Let(fetchInfo(gameInfo, Wants(fields, "CorePlatform"),
                CoreCurrentInfo, conn, over), LAMBDA coreInfo :
  Let(fetchInfo(coreInfo, Wants(fields, "DeviceVersion"),
                EmulatorInfo, conn, over), LAMBDA emulatorInfo :
  Let(fetchInfo(emulatorInfo, Wants(fields, "DeviceStatus"),
                EmulationStatus, conn, over), LAMBDA emulationStatus :
    [io |-> emulationStatus.io, err |-> emulationStatus.err,
     values |-> IF emulationStatus.err.kind # "nil" THEN <<>>
                ELSE [i \in 1..Len(fields) |->
                        fieldValue(fields[i], gameInfo.info, coreInfo.info,
                                   emulatorInfo.info, emulationStatus.info)]]))))

(* regexp.Match of a configured expression, given as the strings it matches *)
Match(regex, str) == str \in regex.matches

coreMatches(coreConfig, coreName, coreVersion, corePlatform) ==
  /\ Match(coreConfig.coreNameRegex, coreName)
  /\ ~coreConfig.coreVersionRegex.nil => Match(coreConfig.coreVersionRegex, coreVersion)
  /\ ~coreConfig.corePlatformRegex.nil => Match(coreConfig.corePlatformRegex, corePlatform)

Domain(conf, exposed, coreSpecific) ==
  [name |-> conf.name, size |-> conf.size, isExposed |-> exposed,
   isCoreSpecific |-> coreSpecific, isReadable |-> FALSE, isWriteable |-> FALSE]

(* the platform's domains, and the map from their lower-case names to them *)
platformDomains(platform) ==
  [list |-> [i \in 1..Len(platform.domains) |-> Domain(platform.domains[i], FALSE, FALSE)],
   map |-> [k \in {cleanLower(platform.domains[i].name) : i \in 1..Len(platform.domains)} |->
              CHOOSE i \in 1..Len(platform.domains) :
                /\ cleanLower(platform.domains[i].name) = k
                /\ \A j \in (i + 1)..Len(platform.domains) :
                     cleanLower(platform.domains[j].name) # k]]

withAccess(pd, size, access) ==
  [pd EXCEPT !.isExposed = TRUE, !.size = size,
             !.isReadable = @ \/ access \in {AccessRW, AccessR},
             !.isWriteable = @ \/ access \in {AccessRW, AccessW}]

(* the loop over the memories of the CORE_MEMORIES reply *)
RECURSIVE addMemories(_, _, _, _, _)
addMemories(doms, memories, i, core, platform) ==
  IF i > Len(memories) THEN [doms |-> doms, err |-> NoError]
  ELSE
    Let(cleanLower(MapValue(memories[i], KeyName)), LAMBDA coreMemName :
    Let(cleanLower(MapValue(memories[i], KeySize)), LAMBDA coreMemSize :
    Let(cleanLower(MapValue(memories[i], KeyAccess)), LAMBDA coreMemAccess :
      IF ~IsDigits(coreMemSize) THEN [doms |-> doms, err |-> FatalError(coreMemSize)]
      ELSE IF coreMemName \notin DOMAIN core.coreToSNIMapping
      THEN [doms |-> doms, err |-> FatalError(coreMemName)]
      ELSE
        Let(core.coreToSNIMapping[coreMemName], LAMBDA mapped :
        Let(IF cleanLower(mapped) \in DOMAIN platform.domainsByName
            THEN platform.domainsByName[cleanLower(mapped)].name
            ELSE mapped, LAMBDA sniMemName :
        Let(cleanLower(sniMemName), LAMBDA sniMemNameLower :
        Let(IF sniMemNameLower \in DOMAIN doms.map THEN doms.map[sniMemNameLower]
            ELSE Len(doms.list) + 1, LAMBDA at :
        Let(IF at <= Len(doms.list) THEN doms.list
            ELSE Append(doms.list,
                        Domain([name |-> sniMemName, size |-> ParseUint(coreMemSize)],
                               TRUE, TRUE)), LAMBDA list :
          addMemories(
            [list |-> [list EXCEPT ![at] = withAccess(@, ParseUint(coreMemSize),
                                                      coreMemAccess)],
             map |-> [k \in (DOMAIN doms.map) \cup {sniMemNameLower} |->
                        IF k = sniMemNameLower THEN at ELSE doms.map[k]]],
            memories, i + 1, core, platform)))))))))

(* The configuration the client is run with: a compiled expression is nil or
   the strings it matches. *)
Regex(strs) == [nil |-> FALSE, matches |-> strs]

NilRegex == [nil |-> TRUE, matches |-> {}]

(* "bsnes", "115", "SNES", "snes", "gb" *)
Bsnes == <<98, 115, 110, 101, 115>>

V115 == <<49, 49, 53>>

SNES == <<83, 78, 69, 83>>

Snes == <<115, 110, 101, 115>>

Gb == <<103, 98>>

(* "WRAM", "wram", "CARTRAM", "cartram", "SRAM", "sram", "VRAM", "vram" *)
WRAM == <<87, 82, 65, 77>>

Wram == <<119, 114, 97, 109>>

CARTRAM == <<67, 65, 82, 84, 82, 65, 77>>

Cartram == <<99, 97, 114, 116, 114, 97, 109>>

SRAM == <<83, 82, 65, 77>>

Sram == <<115, 114, 97, 109>>

VRAM == <<86, 82, 65, 77>>

Vram == <<118, 114, 97, 109>>

coresConfig ==
  << [name |-> Bsnes, coreNameRegex |-> Regex({Bsnes}), coreVersionRegex |-> Regex({V115}),
      corePlatformRegex |-> NilRegex, platform |-> Snes,
      coreToSNIMapping |-> (Wram :> WRAM) @@ (Sram :> CARTRAM) @@ (Vram :> VRAM),
      sniToCoreMapping |-> (Wram :> WRAM) @@ (Cartram :> SRAM) @@ (Vram :> VRAM)],
     [name |-> Bsnes, coreNameRegex |-> Regex({Bsnes}), coreVersionRegex |-> NilRegex,
      corePlatformRegex |-> Regex({SNES}), platform |-> Gb,
      coreToSNIMapping |-> (Wram :> WRAM),
      sniToCoreMapping |-> (Wram :> WRAM)] >>

currentPlatConfig ==
  [platformsByName |->
     (Snes :> [domains |-> << [name |-> WRAM, size |-> 131072],
                              [name |-> CARTRAM, size |-> 0] >>,
               domainsByName |-> (Wram :> [name |-> WRAM, size |-> 131072])
                                   @@ (Cartram :> [name |-> CARTRAM, size |-> 0])])]

(* a client that knows no core: currentCore counts into coresConfig, 0 is nil *)
NoClient ==
  [platConfigNil |-> FALSE, currentCore |-> 0, currentPlatform |-> <<>>,
   currentDomainsNil |-> TRUE, currentDomains |-> <<>>]

DiscoveryFields == <<"CoreName", "CoreVersion", "CorePlatform">>

Discovered(io, cl, err) == [io |-> io, client |-> cl, err |-> err]

(* the last of coresConfig that matches *)
matchCoreLast(coreName, coreVersion, corePlatform) ==
  Let({i \in 1..Len(coresConfig) :
         coreMatches(coresConfig[i], coreName, coreVersion, corePlatform)}, LAMBDA matching :
    IF matching = {} THEN 0 ELSE CHOOSE i \in matching : \A k \in matching : i >= k)

(* the first of coresConfig that matches, 0 when none does *)
matchCore(coreName, coreVersion, corePlatform) ==
  Let({i \in 1..Len(coresConfig) :
         coreMatches(coresConfig[i], coreName, coreVersion, corePlatform)}, LAMBDA matching :
    IF matching = {} THEN 0 ELSE CHOOSE i \in matching : \A k \in matching : i <= k)

(* determineDomainMapping once the core and its platform are found *)
fetchMemories(io, cl, currentCore, platformName, conn, over) ==
  Let(currentPlatConfig.platformsByName[platformName], LAMBDA currentPlatform :
  Let(sendCommandWaitReply(io, CoreMemories, conn, over), LAMBDA sc :
    IF sc.ret.err.kind # "nil" THEN Discovered(sc.io, cl, sc.ret.err)
    ELSE Let(addMemories(platformDomains(currentPlatform), sc.ret.ascii, 1,
                         coresConfig[currentCore], currentPlatform), LAMBDA built :
           IF built.err.kind # "nil" THEN Discovered(sc.io, cl, built.err)
           ELSE Discovered(sc.io,
                  [cl EXCEPT !.currentCore = currentCore,
                             !.currentPlatform = platformName,
                             !.currentDomains = built.doms.list,
                             !.currentDomainsNil = FALSE],
                  NoError))))

(* determineDomainMapping behind its first return *)
rediscover(io, cl, conn, over) ==
  IF cl.platConfigNil THEN Discovered(io, cl, FatalError(<<>>))
  ELSE
    Let(fetchFields(io, DiscoveryFields, conn, over), LAMBDA ff :
      IF ff.err.kind # "nil" THEN Discovered(ff.io, cl, ff.err)
      ELSE
        Let(matchCore(clean(ff.values[1]), clean(ff.values[2]), clean(ff.values[3])),
            LAMBDA currentCore :
              IF currentCore = 0 THEN Discovered(ff.io, cl, FatalError(clean(ff.values[1])))
              ELSE IF coresConfig[currentCore].platform
                        \notin DOMAIN currentPlatConfig.platformsByName
              THEN Discovered(ff.io, cl, FatalError(coresConfig[currentCore].platform))
              ELSE fetchMemories(ff.io, cl, currentCore, coresConfig[currentCore].platform,
                                 conn, over)))

(* a discovery that does not look at c.currentDomains *)
determineDomainMappingAlways(io, cl, conn, over) == rediscover(io, cl, conn, over)

determineDomainMapping(io, cl, conn, over) ==
  IF ~cl.currentDomainsNil THEN Discovered(io, cl, NoError)
  ELSE rediscover(io, cl, conn, over)

(***************************************************************************)
(* Reads and writes by memory domain.                                      *)
(***************************************************************************)
(* the CORE_READ command of one request *)
domainReadCommand(memName, reads) ==
  CoreRead \o memName
    \o Concat([j \in 1..Len(reads) |-> regionListing(reads[j].offset, reads[j].size)])
    \o <<LF>>

RECURSIVE writeDomainReads(_, _, _, _, _)
writeDomainReads(io, core, requests, i, conn) ==
  IF i > Len(requests) THEN [io |-> io, err |-> NoError]
  ELSE IF cleanLower(requests[i].name) \notin DOMAIN core.sniToCoreMapping
  THEN [io |-> io, err |-> NonFatalError(requests[i].name)]
  ELSE IF conn = "down" THEN [io |-> io, err |-> FatalError(<<>>)]
  ELSE writeDomainReads(
         Request(io, domainReadCommand(core.sniToCoreMapping[cleanLower(requests[i].name)],
                                       requests[i].reads)),
         core, requests, i + 1, conn)

(* the copy of one request's regions out of its reply *)
RECURSIVE copyDomainRegions(_, _, _, _, _)
copyDomainRegions(data, bin, reads, j, offset) ==
  IF j > Len(reads) THEN data
  ELSE copyDomainRegions([data EXCEPT ![j] = copyRegion(@, bin, offset, reads[j].size)],
                         bin, reads, j + 1, offset + reads[j].size)

RECURSIVE readDomainReplies(_, _, _, _, _)
readDomainReplies(io, requests, i, mrsp, over) ==
  IF i > Len(requests) THEN [io |-> io, mrsp |-> mrsp, err |-> NoError]
  ELSE
    Let(Read(io, over), LAMBDA rd :
      IF rd.p.err.kind # "nil" THEN [io |-> rd.io, mrsp |-> mrsp, err |-> rd.p.err]
      ELSE IF ~rd.p.asciiNil
      THEN [io |-> rd.io, mrsp |-> mrsp, err |-> NonFatalError(<<>>)]
      ELSE readDomainReplies(rd.io, requests, i + 1,
             [mrsp EXCEPT ![i] = copyDomainRegions(@, rd.p.bin, requests[i].reads, 1, 0)],
             over))

DomainOutcome(io, cl, r) == [io |-> io, client |-> cl, ret |-> r]

NoResponse == <<>>

Failed(io, cl, err) == DomainOutcome(io, cl, [rspNil |-> TRUE, rsp |-> NoResponse, err |-> err])

multiDomainRead(io, cl, requests, conn, over) ==
  Let(determineDomainMapping(io, cl, conn, over), LAMBDA d :
    IF d.err.kind # "nil" THEN Failed(d.io, d.client, d.err)
    ELSE
      Let(writeDomainReads(d.io, coresConfig[d.client.currentCore], requests, 1, conn),
          LAMBDA w :
            IF w.err.kind # "nil" THEN Failed(w.io, d.client, w.err)
            ELSE
              Let(readDomainReplies(w.io, requests, 1,
                    [i \in 1..Len(requests) |->
                       [j \in 1..Len(requests[i].reads) |-> Zeros(requests[i].reads[j].size)]],
                    over),
                  LAMBDA got :
                    IF got.err.kind # "nil" THEN Failed(got.io, d.client, got.err)
                    ELSE DomainOutcome(got.io, d.client,
                           [rspNil |-> FALSE,
                            rsp |-> [i \in 1..Len(requests) |->
                                       [name |-> requests[i].name,
                                        reads |-> [j \in 1..Len(requests[i].reads) |->
                                                     [offset |-> requests[i].reads[j].offset,
                                                      data |-> got.mrsp[i][j]]]]],
                            err |-> NoError]))))

(* the handler's effect on the client and the connection *)
ReturnDomain(out) ==
  /\ Return([io |-> out.io, ret |-> out.ret])
  /\ client' = out.client

MultiDomainRead ==
  /\ pc = "ready"
  /\ call.op = "MultiDomainRead"
  /\ \E over \in 0..MaxOver :
       \E out \in {multiDomainRead(Here, client, call.requests, call.conn, over)} :
         ReturnDomain(out)
  /\ UNCHANGED <<call, peer>>

RECURSIVE totalSize(_)
totalSize(writes) == IF writes = <<>> THEN 0 ELSE Len(Head(writes).data) + totalSize(Tail(writes))

(* the bCORE_WRITE command of one request with its payload, written at once *)
domainWriteFrame(memName, writes) ==
  CoreWrite \o memName
    \o Concat([j \in 1..Len(writes) |-> regionListing(writes[j].offset, Len(writes[j].data))])
    \o <<LF>>
    \o <<NUL>> \o PutUint32(totalSize(writes))
    \o Concat([j \in 1..Len(writes) |-> writes[j].data])

RECURSIVE writeDomainWrites(_, _, _, _, _)
writeDomainWrites(io, core, requests, i, conn) ==
  IF i > Len(requests) THEN [io |-> io, err |-> NoError]
  ELSE IF cleanLower(requests[i].name) \notin DOMAIN core.sniToCoreMapping
  THEN [io |-> io, err |-> NonFatalError(requests[i].name)]
  ELSE IF conn = "down" THEN [io |-> io, err |-> FatalError(<<>>)]
  ELSE writeDomainWrites(
         Request(io, domainWriteFrame(core.sniToCoreMapping[cleanLower(requests[i].name)],
                                      requests[i].writes)),
         core, requests, i + 1, conn)

multiDomainWrite(io, cl, requests, conn, over, ov) ==
  Let(determineDomainMapping(io, cl, conn, over), LAMBDA d :
    IF d.err.kind # "nil" THEN Failed(d.io, d.client, d.err)
    ELSE
      Let(writeDomainWrites(d.io, coresConfig[d.client.currentCore], requests, 1, conn),
          LAMBDA w :
            IF w.err.kind # "nil" THEN Failed(w.io, d.client, w.err)
            ELSE
              Let(readWriteReplies(w.io, Len(requests), <<>>, ov), LAMBDA got :
                IF got.err.kind # "nil" THEN Failed(got.io, d.client, got.err)
                ELSE IF got.errReplies # <<>>
                THEN Failed(got.io, d.client, NonFatalError(ErrPrefix \o got.errReplies))
                ELSE DomainOutcome(got.io, d.client,
                       [rspNil |-> FALSE,
                        rsp |-> [i \in 1..Len(requests) |->
                                   [name |-> requests[i].name,
                                    writes |-> [j \in 1..Len(requests[i].writes) |->
                                                  [offset |-> requests[i].writes[j].offset,
                                                   size |-> Len(requests[i].writes[j].data)]]]],
                        err |-> NoError]))))

MultiDomainWrite ==
  /\ pc = "ready"
  /\ call.op = "MultiDomainWrite"
  /\ \E over \in (IF client.currentDomainsNil THEN 0..MaxOver ELSE {0}),
        ov \in [1..Len(call.requests) -> 0..MaxOver] :
       \E out \in {multiDomainWrite(Here, client, call.requests, call.conn, over, ov)} :
         ReturnDomain(out)
  /\ UNCHANGED <<call, peer>>

(***************************************************************************)
(* Calls.                                                                  *)
(***************************************************************************)
(* "\n\n", the reply to a command that succeeded and has nothing to say *)
AckReply == <<LF, LF>>

(* "\nerror:bad\n\n" *)
ErrorBadReply == <<LF>> \o KeyError \o <<58, 98, 97, 100, 10, 10>>

CmdLines == {<<>>, <<67>>, <<67, 32, 97>>, CoreMemories}

BinaryArgs == SeqsUpTo({0, 1, 65}, MaxArgLen)

ParseCalls == {[op |-> "parseResponse"]}

SendCalls ==
  [op : {"SendCommandWaitReply", "SendCommandBinaryWaitReply"},
   cmd : {CoreMemories}, arg : {<<65>>}, conn : {"up"}]

FrameCalls ==
  [op : {"SendCommandWaitReply", "SendCommandBinaryWaitReply"},
   cmd : CmdLines, arg : BinaryArgs, conn : {"up", "down"}]

InitCmd ==
  /\ \/ /\ call \in ParseCalls
        /\ \E r \in Replies : peer = <<r>> /\ rx = r
        /\ nreq = 1
     \/ /\ call \in SendCalls
        /\ \E r \in Replies : peer = <<r>>
        /\ rx = <<>>
        /\ nreq = 0
     \/ /\ call \in FrameCalls
        /\ \E r \in {AckReply, ErrorBadReply, BinABCD} : peer = <<r>>
        /\ rx = <<>>
        /\ nreq = 0
  /\ tx = <<>>
  /\ ret = NotReturned
  /\ pc = "ready"
  /\ client = NoClient

NextCmd ==
  \/ ParseResponse
  \/ SendCommandWaitReply
  \/ SendCommandBinaryWaitReply

SpecCmd == InitCmd /\ [][NextCmd]_vars

(***************************************************************************)
(* Calls that read memory, and the replies of their peers.                 *)
(***************************************************************************)
FxPakProAddress(a) == [address |-> a, space |-> "FxPakPro", mapping |-> "Unknown"]

ReadChoices ==
  { [requestAddress |-> FxPakProAddress(\hF50000), size |-> 2],
    [requestAddress |-> FxPakProAddress(\hF50010), size |-> 1],
    [requestAddress |-> FxPakProAddress(\hF70000), size |-> 2],
    [requestAddress |-> FxPakProAddress(\hF70004), size |-> 0],
    [requestAddress |-> FxPakProAddress(\h7FC0), size |-> 3] }

(* the bytes a peer answers group g with, when it answers n of them *)
Payload(g, n) == [k \in 1..n |-> 16 * g + k]

BinaryReply(bytes) == <<NUL>> \o PutUint32(Len(bytes)) \o bytes

ReplyVariants ==
  [kind : {"binary"}, short : (-1)..MaxShort] \cup [kind : {"error", "ack", "raw"}, short : {0}]

VariantReply(g, total, v) ==
  CASE v.kind = "binary" ->
         BinaryReply(Payload(g, IF total < v.short THEN 0 ELSE total - v.short))
    [] v.kind = "error" -> ErrorBadReply
    [] v.kind = "ack" -> AckReply
    [] v.kind = "raw" -> <<97>>

(* the peers of a call with these groups: every group answered in full but
   perhaps one, or the last one not answered *)
GroupPeers(totals) ==
  { [g \in 1..Len(totals) |->
       IF g = g0 THEN VariantReply(g, totals[g], v)
       ELSE BinaryReply(Payload(g, totals[g]))] :
    g0 \in 1..Len(totals), v \in ReplyVariants }
  \cup { [g \in 1..(Len(totals) - 1) |-> BinaryReply(Payload(g, totals[g]))] }

RECURSIVE readSizeSum(_, _)
readSizeSum(reads, js) ==
  IF js = <<>> THEN 0 ELSE reads[Head(js)].size + readSizeSum(reads, Tail(js))

ReadTotals(reads) ==
  Let(memTypesOf(reads, <<>>), LAMBDA types :
    [g \in 1..Len(types) |-> readSizeSum(reads, groupOf(reads, types[g]))])

DomainNames == {WRAM, <<32>> \o Wram \o <<32>>, CARTRAM, <<98, 111, 103, 117, 115>>}

DomainReadLists ==
  { << [offset |-> 0, size |-> 1], [offset |-> 16, size |-> 2] >>,
    << [offset |-> 4, size |-> 0], [offset |-> 1, size |-> 1] >> }

DomainReadRequests == SeqsUpTo([name : DomainNames, reads : DomainReadLists], MaxDomains)

RECURSIVE domainSizeSum(_)
domainSizeSum(reads) == IF reads = <<>> THEN 0 ELSE Head(reads).size + domainSizeSum(Tail(reads))

DomainReadTotals(requests) == [i \in 1..Len(requests) |-> domainSizeSum(requests[i].reads)]

(* "\nname:bsnes\nversion:115\nplatform:SNES\n\n" *)
CoreInfoReply ==
  <<LF>> \o KeyName \o <<COLON>> \o Bsnes \o <<LF>>
    \o KeyVersion \o <<COLON>> \o V115 \o <<LF>>
    \o KeyPlatform \o <<COLON>> \o SNES \o <<LF, LF>>

(* the same core in a version only the second configuration matches *)
CoreInfoOtherVersion ==
  <<LF>> \o KeyName \o <<COLON>> \o Bsnes \o <<LF>>
    \o KeyVersion \o <<COLON, 49>> \o <<LF>>
    \o KeyPlatform \o <<COLON>> \o SNES \o <<LF, LF>>

(* a core no configuration matches *)
CoreInfoUnknown == <<LF>> \o KeyName \o <<COLON, 120, LF, LF>>

Memory(name, size, access) ==
  KeyName \o <<COLON>> \o name \o <<LF>>
    \o KeySize \o <<COLON>> \o size \o <<LF>>
    \o KeyAccess \o <<COLON>> \o access \o <<LF>>

(* WRAM of 131072 bytes, SRAM of 0 bytes and VRAM of 65536 bytes *)
MemoriesReply ==
  <<LF>> \o Memory(WRAM, <<49, 51, 49, 48, 55, 50>>, AccessRW)
    \o Memory(SRAM, <<48>>, AccessR)
    \o Memory(VRAM, <<54, 53, 53, 51, 54>>, AccessW) \o <<LF>>

MemoriesBadSize == <<LF>> \o Memory(WRAM, <<120>>, AccessRW) \o <<LF>>

MemoriesUnmapped == <<LF>> \o Memory(<<120>>, <<49>>, AccessRW) \o <<LF>>

DiscoveryReplies ==
  { <<CoreInfoReply, MemoriesReply>>, <<CoreInfoReply, MemoriesBadSize>>,
    <<CoreInfoReply, MemoriesUnmapped>>, <<CoreInfoReply, ErrorBadReply>>,
    <<CoreInfoOtherVersion, MemoriesReply>>, <<CoreInfoUnknown>>, <<ErrorBadReply>>, <<>> }

(* the client after a discovery that was answered CoreInfoReply, MemoriesReply *)
DiscoveredClient ==
  LET platform == currentPlatConfig.platformsByName[Snes]
  IN [platConfigNil |-> FALSE, currentCore |-> 1, currentPlatform |-> Snes,
      currentDomainsNil |-> FALSE,
      currentDomains |->
        addMemories(platformDomains(platform), parseResponse(MemoriesReply).ascii, 1,
                    coresConfig[1], platform).doms.list]

UnconfiguredClient == [NoClient EXCEPT !.platConfigNil = TRUE]

FullPeer(totals) == [g \in 1..Len(totals) |-> BinaryReply(Payload(g, totals[g]))]

InitRead ==
  /\ \/ /\ call \in [op : {"MultiReadMemory"}, reads : SeqsUpTo(ReadChoices, MaxRequests),
                     conn : {"up"}]
        /\ peer \in GroupPeers(ReadTotals(call.reads))
        /\ client = NoClient
     \/ /\ call \in [op : {"MultiReadMemory"}, reads : SeqsUpTo(ReadChoices, 1),
                     conn : {"down"}]
        /\ peer = FullPeer(ReadTotals(call.reads))
        /\ client = NoClient
     \/ /\ call \in [op : {"MultiDomainRead"}, requests : DomainReadRequests, conn : {"up"}]
        /\ peer \in GroupPeers(DomainReadTotals(call.requests))
        /\ client = DiscoveredClient
     \/ /\ call \in [op : {"MultiDomainRead"},
                     requests : SeqsUpTo([name : DomainNames, reads : DomainReadLists], 1),
                     conn : {"up", "down"}]
        /\ \E d \in DiscoveryReplies : peer = d \o FullPeer(DomainReadTotals(call.requests))
        /\ client \in {NoClient, UnconfiguredClient}
     \/ /\ call \in [op : {"MultiDomainRead"},
                     requests : SeqsUpTo([name : DomainNames, reads : DomainReadLists], 1),
                     conn : {"down"}]
        /\ peer = FullPeer(DomainReadTotals(call.requests))
        /\ client = DiscoveredClient
  /\ rx = <<>>
  /\ tx = <<>>
  /\ nreq = 0
  /\ ret = NotReturned
  /\ pc = "ready"

NextRead == MultiReadMemory \/ MultiDomainRead

SpecRead == InitRead /\ [][NextRead]_vars

(***************************************************************************)
(* Calls that write, and the replies of their peers.                       *)
(***************************************************************************)
WriteChoices ==
  { [requestAddress |-> FxPakProAddress(\hF50000), data |-> <<1>>],
    [requestAddress |-> FxPakProAddress(\hF50010), data |-> <<2, 3>>],
    [requestAddress |-> FxPakProAddress(\hF70000), data |-> <<>>],
    [requestAddress |-> FxPakProAddress(\hE00020), data |-> <<4, 5, 6>>] }

(* the peers of a call that writes n groups: every group acknowledged, refused
   or answered in binary, or the last one not answered *)
AckPeers(n) ==
  [1..n -> {AckReply, ErrorBadReply, BinABCD}] \cup {[g \in 1..(n - 1) |-> AckReply]}

DomainWriteLists ==
  { << [offset |-> 0, data |-> <<3>>], [offset |-> 16, data |-> <<4, 5>>] >>,
    << [offset |-> 4, data |-> <<>>], [offset |-> 1, data |-> <<6>>] >> }

DomainWriteRequests == SeqsUpTo([name : DomainNames, writes : DomainWriteLists], MaxDomains)

InitWrite ==
  /\ \/ /\ call \in FrameCalls
        /\ \E r \in {AckReply, ErrorBadReply, BinABCD} : peer = <<r>>
        /\ client = NoClient
     \/ /\ call \in [op : {"MultiWriteMemory"}, writes : SeqsUpTo(WriteChoices, MaxRequests),
                     conn : {"up"}]
        /\ peer \in AckPeers(Len(memTypesOf(call.writes, <<>>)))
        /\ client = NoClient
     \/ /\ call \in [op : {"MultiWriteMemory"}, writes : SeqsUpTo(WriteChoices, 1),
                     conn : {"down"}]
        /\ peer = <<AckReply>>
        /\ client = NoClient
     \/ /\ call \in [op : {"MultiDomainWrite"}, requests : DomainWriteRequests, conn : {"up"}]
        /\ peer \in AckPeers(Len(call.requests))
        /\ client = DiscoveredClient
     \/ /\ call \in [op : {"MultiDomainWrite"},
                     requests : SeqsUpTo([name : DomainNames, writes : DomainWriteLists], 1),
                     conn : {"up", "down"}]
        /\ \E d \in DiscoveryReplies : peer = d \o <<AckReply>>
        /\ client \in {NoClient, UnconfiguredClient}
     \/ /\ call \in [op : {"MultiDomainWrite"},
                     requests : SeqsUpTo([name : DomainNames, writes : DomainWriteLists], 1),
                     conn : {"down"}]
        /\ peer = <<AckReply>>
        /\ client = DiscoveredClient
  /\ rx = <<>>
  /\ tx = <<>>
  /\ nreq = 0
  /\ ret = NotReturned
  /\ pc = "ready"

NextWrite ==
  \/ SendCommandWaitReply
  \/ SendCommandBinaryWaitReply
  \/ MultiWriteMemory
  \/ MultiDomainWrite

SpecWrite == InitWrite /\ [][NextWrite]_vars

(***************************************************************************)
(* FX Pak Pro: reads and writes by memory domain.  A uint32 is kept as its  *)
(* two 16-bit halves, so that sums wrap as they do in the program.          *)
(***************************************************************************)
Half == 2^16

Uint32(hi, lo) == [hi |-> hi, lo |-> lo]

(* uint32(n) of a number that is not negative *)
uint32(n) == Uint32((n \div Half) % Half, n % Half)

MaxUint32 == Uint32(Half - 1, Half - 1)

(* a + b of two uint32 *)
Add32(a, b) ==
  Uint32((a.hi + b.hi + (a.lo + b.lo) \div Half) % Half, (a.lo + b.lo) % Half)

(* a > b and a >= b of two uint32 *)
Gt32(a, b) == a.hi > b.hi \/ (a.hi = b.hi /\ a.lo > b.lo)

Ge32(a, b) == a = b \/ Gt32(a, b)

domainDescs ==
  << [name |-> <<67, 65, 82, 84, 82, 79, 77>>, type |-> "SNESCartROM",
      start |-> \h0, size |-> \hE00000, writeable |-> TRUE],
     [name |-> <<67, 65, 82, 84, 82, 65, 77>>, type |-> "SNESCartRAM",
      start |-> \hE00000, size |-> \h100000, writeable |-> TRUE],
     [name |-> <<87, 82, 65, 77>>, type |-> "SNESWorkRAM",
      start |-> \hF50000, size |-> \h20000, writeable |-> FALSE],
     [name |-> <<65, 80, 85, 82, 65, 77>>, type |-> "SNESAPURAM",
      start |-> \hF80000, size |-> \h10000, writeable |-> FALSE],
     [name |-> <<86, 82, 65, 77>>, type |-> "SNESVideoRAM",
      start |-> \hF70000, size |-> \h10000, writeable |-> FALSE],
     [name |-> <<67, 71, 82, 65, 77>>, type |-> "SNESCGRAM",
      start |-> \hF90000, size |-> \h200, writeable |-> FALSE],
     [name |-> <<79, 65, 77>>, type |-> "SNESObjectAttributeMemory",
      start |-> \hF90200, size |-> \h420 - \h200, writeable |-> FALSE],
     [name |-> <<70, 88, 80, 65, 75, 80, 82, 79, 95, 83, 78, 69, 83>>, type |-> "SNESCoreSpecificMemory",
      start |-> \h0, size |-> \h1000000, writeable |-> TRUE],
     [name |-> <<70, 88, 80, 65, 75, 80, 82, 79, 95, 67, 77, 68>>, type |-> "SNESCoreSpecificMemory",
      start |-> \h1000000, size |-> \h1000000, writeable |-> TRUE] >>

CoreSpecific == "SNESCoreSpecificMemory"

ToUpper(s) == [i \in 1..Len(s) |-> IF s[i] >= 97 /\ s[i] <= 122 THEN s[i] - 32 ELSE s[i]]

(* the maps filled by init, as the index of the description, 0 when the key
   is missing; a later description of the same type replaces an earlier one *)
domainDescByName(name) ==
  Let({i \in 1..Len(domainDescs) : domainDescs[i].name = name}, LAMBDA found :
    IF found = {} THEN 0 ELSE CHOOSE i \in found : \A k \in found : k <= i)

domainDescByType(type) ==
  Let({i \in 1..Len(domainDescs) : domainDescs[i].type = type}, LAMBDA found :
    IF found = {} THEN 0 ELSE CHOOSE i \in found : \A k \in found : k <= i)

InvalidArgument == [kind |-> "InvalidArgument", text |-> <<>>]

(* dm of one group of requests, 0 where the handler returns InvalidArgument *)
domainOf(domain) ==
  IF ~domain.snes THEN 0
  ELSE IF domain.type = CoreSpecific
  THEN IF domain.nameNil THEN 0 ELSE domainDescByName(ToUpper(domain.name))
  ELSE domainDescByType(domain.type)

(* the two checks of one entry *)
rangeChecks(dm, address, size) ==
  /\ ~Ge32(address, uint32(dm.size))
  /\ ~Gt32(Add32(address, size), uint32(dm.size))

(* read.Size of a read, uint32(len(write.Data)) of a write *)
sizeOf(op, entry) ==
  IF op = "Device.MultiDomainRead" THEN entry.size ELSE uint32(Len(entry.data))

(* the loop over request.Requests from group i on, mreqs as built so far;
   entries are the Reads or the Writes of a group *)
RECURSIVE domainRequests(_, _, _, _)
domainRequests(op, requests, i, mreqs) ==
  IF i > Len(requests) THEN [err |-> NoError, mreqs |-> mreqs]
  ELSE
    Let(domainOf(requests[i].domain), LAMBDA dm :
      IF dm = 0 THEN [err |-> InvalidArgument, mreqs |-> mreqs]
      ELSE IF \E j \in 1..Len(requests[i].entries) :
                ~rangeChecks(domainDescs[dm], requests[i].entries[j].address,
                             sizeOf(op, requests[i].entries[j]))
      THEN [err |-> InvalidArgument, mreqs |-> mreqs]
      ELSE domainRequests(op, requests, i + 1,
             mreqs \o [j \in 1..Len(requests[i].entries) |->
                         [address |-> Add32(uint32(domainDescs[dm].start),
                                            requests[i].entries[j].address),
                          size |-> sizeOf(op, requests[i].entries[j])]]))

(* what a handler of the device returns, and whether it called
   MultiReadMemory or MultiWriteMemory, with which requests *)
DeviceOutcome(err, invoked, mreqs) == [err |-> err, invoked |-> invoked, mreqs |-> mreqs]

(* the errors MultiReadMemory and MultiWriteMemory of the device may return *)
DeviceErrors == {NoError, PlainError(<<>>)}

ReturnDevice(checked) ==
  /\ IF checked.err.kind # "nil"
     THEN ret' = DeviceOutcome(checked.err, FALSE, <<>>)
     ELSE \E err \in DeviceErrors : ret' = DeviceOutcome(err, TRUE, checked.mreqs)
  /\ pc' = "returned"
  /\ UNCHANGED <<call, peer, rx, tx, nreq, client>>

(* Data of a MemoryDomainAddressData: nil, or the Data of the k-th response
   of MultiReadMemory *)
NilData == [nil |-> TRUE, of |-> 0]

MemoryData(k) == [nil |-> FALSE, of |-> k]

(* rsp.Responses and addressDatas as the loop over request.Requests builds
   them; Reads[j] and addressDatas[k] are one pointer, kept here as k *)
RECURSIVE addressDatasOf(_, _, _, _)
addressDatasOf(requests, i, responses, addressDatas) ==
  IF i > Len(requests) THEN [responses |-> responses, addressDatas |-> addressDatas]
  ELSE addressDatasOf(requests, i + 1,
         Append(responses,
                [domain |-> domainOf(requests[i].domain),
                 reads |-> [j \in 1..Len(requests[i].entries) |-> Len(addressDatas) + j]]),
         addressDatas \o [j \in 1..Len(requests[i].entries) |->
                            [address |-> requests[i].entries[j].address, data |-> NilData]])

(* every response stored one place further on *)
storeDataShifted(addressDatas, mrsp) ==
  [k \in 1..Len(addressDatas) |->
     IF k > 1 /\ k - 1 <= Len(mrsp) THEN [addressDatas[k] EXCEPT !.data = mrsp[k - 1].data]
     ELSE addressDatas[k]]

(* for k := range mrsp { addressDatas[k].Data = mrsp[k].Data } *)
storeData(addressDatas, mrsp) ==
  [k \in 1..Len(addressDatas) |->
     IF k <= Len(mrsp) THEN [addressDatas[k] EXCEPT !.data = mrsp[k].data]
     ELSE addressDatas[k]]

(* the response as its reader sees it, every pointer followed *)
responsesOf(responses, addressDatas) ==
  [i \in 1..Len(responses) |->
     [domain |-> responses[i].domain,
      reads |-> [j \in 1..Len(responses[i].reads) |-> addressDatas[responses[i].reads[j]]]]]

(* what MultiReadMemory may return for n requests: a response for each, for
   all but the last, or one more *)
MemoryResponses(n) ==
  { [k \in 1..m |-> [data |-> MemoryData(k)]] : m \in {n - 1, n, n + 1} \cap Nat }

DeviceReadOutcome(err, mreqs, mrsp, rsp, panic) ==
  [err |-> err, invoked |-> TRUE, mreqs |-> mreqs, mrsp |-> mrsp, rsp |-> rsp,
   panic |-> panic]

multiDomainReadResponse(requests, mreqs, err, mrsp) ==
  Let(addressDatasOf(requests, 1, <<>>, <<>>), LAMBDA built :
    IF err.kind # "nil"
    THEN DeviceReadOutcome(err, mreqs, <<>>,
                           responsesOf(built.responses, built.addressDatas), FALSE)
    ELSE IF Len(mrsp) > Len(built.addressDatas)
    THEN DeviceReadOutcome(err, mreqs, mrsp,
                           responsesOf(built.responses, storeData(built.addressDatas, mrsp)),
                           TRUE)
    ELSE DeviceReadOutcome(err, mreqs, mrsp,
                           responsesOf(built.responses, storeData(built.addressDatas, mrsp)),
                           FALSE))

DeviceMultiDomainRead ==
  /\ pc = "ready"
  /\ call.op = "Device.MultiDomainRead"
  /\ \E checked \in {domainRequests(call.op, call.requests, 1, <<>>)} :
       IF checked.err.kind # "nil"
       THEN ret' = DeviceOutcome(checked.err, FALSE, <<>>)
       ELSE \E err \in DeviceErrors : \E mrsp \in MemoryResponses(Len(checked.mreqs)) :
              ret' = multiDomainReadResponse(call.requests, checked.mreqs, err, mrsp)
  /\ pc' = "returned"
  /\ UNCHANGED <<call, peer, rx, tx, nreq, client>>

DeviceMultiDomainWrite ==
  /\ pc = "ready"
  /\ call.op = "Device.MultiDomainWrite"
  /\ \E checked \in {domainRequests(call.op, call.requests, 1, <<>>)} :
       ReturnDevice(checked)

(***************************************************************************)
(* Requests to the FX Pak Pro: one entry at any place of any group among   *)
(* entries that are in range.                                              *)
(***************************************************************************)
SnesRef(type) == [snes |-> TRUE, type |-> type, nameNil |-> TRUE, name |-> <<>>]

NamedRef(name) == [snes |-> TRUE, type |-> CoreSpecific, nameNil |-> FALSE, name |-> name]

WorkRAMRef == SnesRef("SNESWorkRAM")

DomainRefs ==
  { WorkRAMRef, SnesRef("SNESCGRAM"),
    NamedRef(<<102, 120, 112, 97, 107, 112, 114, 111, 95, 99, 109, 100>>),
    NamedRef(<<98, 111, 103, 117, 115>>),
    SnesRef(CoreSpecific), SnesRef("Unknown"),
    [snes |-> FALSE, type |-> "", nameNil |-> TRUE, name |-> <<>>] }

sizeOfRef(domain) == IF domainOf(domain) = 0 THEN 1 ELSE domainDescs[domainOf(domain)].size

FirstByte == [address |-> uint32(0), size |-> uint32(1)]

ReadEntries(domain) ==
  Let(sizeOfRef(domain), LAMBDA size :
    { FirstByte,
      [address |-> uint32(size - 1), size |-> uint32(1)],
      [address |-> uint32(0), size |-> uint32(size)],
      [address |-> uint32(size), size |-> uint32(1)],
      [address |-> uint32(size - 1), size |-> uint32(2)],
      [address |-> uint32(size + 1), size |-> uint32(0)],
      [address |-> MaxUint32, size |-> uint32(1)],
      [address |-> uint32(1), size |-> MaxUint32] })

FirstWrite == [address |-> uint32(0), data |-> <<1>>]

WriteEntries(domain) ==
  Let(sizeOfRef(domain), LAMBDA size :
    { FirstWrite,
      [address |-> uint32(size - 1), data |-> <<1>>],
      [address |-> uint32(size - 2), data |-> <<1, 2>>],
      [address |-> uint32(size), data |-> <<1>>],
      [address |-> uint32(size - 1), data |-> <<1, 2>>],
      [address |-> uint32(size), data |-> <<>>],
      [address |-> MaxUint32, data |-> <<1>>] })

(* a list of n with x at place p and fill elsewhere *)
Around(n, p, x, fill) == [k \in 1..n |-> IF k = p THEN x ELSE fill]

Places(n) == {pl \in (1..n) \X (1..n) : pl[2] <= pl[1]}

Group(domain, entries) == [domain |-> domain, entries |-> entries]

DeviceRequests(Entries(_), first) ==
  UNION { { Around(g[1], g[2],
                   Group(domain, Around(e[1], e[2], entry, first)),
                   Group(WorkRAMRef, <<first>>)) :
              g \in Places(MaxDomains), e \in Places(MaxRequests), entry \in Entries(domain) } :
          domain \in DomainRefs }

DeviceCalls ==
  { [op |-> "Device.MultiDomainRead", requests |-> r] : r \in DeviceRequests(ReadEntries, FirstByte) }
    \cup
  { [op |-> "Device.MultiDomainWrite", requests |-> r] : r \in DeviceRequests(WriteEntries, FirstWrite) }

InitDevice ==
  /\ call \in DeviceCalls
  /\ peer = <<>>
  /\ rx = <<>>
  /\ tx = <<>>
  /\ nreq = 0
  /\ ret = DeviceOutcome(NoError, FALSE, <<>>)
  /\ pc = "ready"
  /\ client = NoClient

NextDevice ==
  \/ DeviceMultiDomainRead
  \/ DeviceMultiDomainWrite

SpecDevice == InitDevice /\ [][NextDevice]_vars

(***************************************************************************)
(* Callers that share one client.  Commands and replies are taken whole:   *)
(* tx holds, for each command written, the caller that wrote it; the peer   *)
(* answers the commands in turn, and rx holds the replies not yet read.     *)
(* Every reply is well formed and arrives before a deadline passes.         *)
(***************************************************************************)
MaxCallers == 2
MaxCommands == 3

Callers == 1..MaxCallers

DomainOps == {"MultiDomainRead", "MultiDomainWrite"}

(* the handlers that return at an ASCII reply, leaving the later ones *)
BinaryReplyOps == {"MultiReadMemory", "MultiDomainRead"}

(* names: for each command the handler is to write, whether the name of its
   memory domain is known to the core; only the domain handlers look it up *)
LockOps ==
  { [op |-> o, names |-> <<TRUE>>] :
      o \in {"SendCommandWaitReply", "SendCommandBinaryWaitReply"} }
    \cup
  { [op |-> o, names |-> [k \in 1..n |-> TRUE]] :
      o \in {"MultiReadMemory", "MultiWriteMemory"}, n \in 1..MaxDomains }
    \cup
  { [op |-> o, names |-> ns] :
      o \in DomainOps, ns \in (SeqsUpTo(BOOLEAN, MaxDomains) \ {<<>>}) }

Idle == [op |-> "idle", names |-> <<>>, discover |-> FALSE]

(* where a caller is: the section it is in, the pass of the loop, the places
   in the stream of the commands it wrote and of the replies it took *)
Progress(section, i, wrote, took, err) ==
  [section |-> section, i |-> i, wrote |-> wrote, took |-> took, err |-> err]

(* what a handler does between Lock and Unlock, as the names of the commands;
   determineDomainMapping comes first and is CORE_CURRENT_INFO and
   CORE_MEMORIES, each in a SendCommandWaitReply of its own *)
sections(c) ==
  IF c.discover THEN <<<<TRUE>>, <<TRUE>>, c.names>> ELSE <<c.names>>

inDiscovery(c, p) == c.discover /\ p.section <= 2

Invoke ==
  \E c \in Callers, o \in LockOps :
    \E discover \in {o.op \in DomainOps /\ client.currentDomainsNil} :
      /\ pc[c] = "idle"
      /\ Len(tx) + Len(o.names) + (IF discover THEN 2 ELSE 0) <= MaxCommands
      /\ call' = [call EXCEPT ![c] = [op |-> o.op, names |-> o.names, discover |-> discover]]
      /\ ret' = [ret EXCEPT ![c] = Progress(1, 1, {}, {}, "nil")]
      /\ pc' = [pc EXCEPT ![c] = "lock"]
      /\ UNCHANGED <<peer, rx, tx, nreq, client>>

(* c.lock.Lock() *)
Lock ==
  \E c \in Callers :
    /\ pc[c] = "lock"
    /\ client.lock = 0
    /\ client' = [client EXCEPT !.lock = c]
    /\ pc' = [pc EXCEPT ![c] = "write"]
    /\ UNCHANGED <<call, peer, rx, tx, nreq, ret>>

(* one pass of the loop that writes the commands: the look-up of the name
   by the domain handlers, then writeWithDeadline *)
writeWithDeadline ==
  \E c \in Callers :
    \E names \in {sections(call[c])[ret[c].section]} :
      /\ pc[c] = "write"
      /\ IF ~names[ret[c].i]
         THEN /\ ret' = [ret EXCEPT ![c].err = "nonfatal"]
              /\ pc' = [pc EXCEPT ![c] = "unlock"]
              /\ tx' = tx
         ELSE /\ tx' = Append(tx, c)
              /\ ret' = [ret EXCEPT ![c].wrote = @ \cup {Len(tx) + 1},
                                    ![c].i = IF ret[c].i = Len(names) THEN 1 ELSE @ + 1]
              /\ pc' = [pc EXCEPT ![c] = IF ret[c].i = Len(names) THEN "read" ELSE "write"]
      /\ UNCHANGED <<call, peer, rx, nreq, client>>

(* the error a handler returns at a reply, "nil" when it goes on *)
replyError(c, p, kind) ==
  IF inDiscovery(c, p)
  THEN IF p.section = 1 /\ kind = "bin" THEN "fatal" ELSE "nil"
  ELSE IF c.op \in BinaryReplyOps /\ kind = "ascii"
  THEN IF c.op = "MultiReadMemory" THEN "plain" ELSE "nonfatal"
  ELSE "nil"

(* one pass of the loop that reads the replies: readResponse *)
readResponse ==
  \E c \in Callers :
    \E names \in {sections(call[c])[ret[c].section]},
       err \in {IF rx = <<>> THEN "nil" ELSE replyError(call[c], ret[c], Head(rx))} :
      /\ pc[c] = "read"
      /\ rx # <<>>
      /\ rx' = Tail(rx)
      /\ ret' = [ret EXCEPT ![c].took = @ \cup {nreq - Len(rx) + 1},
                            ![c].err = err,
                            ![c].i = @ + 1]
      /\ pc' = [pc EXCEPT ![c] = IF err # "nil" \/ ret[c].i = Len(names)
                                 THEN "unlock" ELSE "read"]
      /\ UNCHANGED <<call, peer, tx, nreq, client>>

(* the deferred c.lock.Unlock() at a return; determineDomainMapping sets
   c.currentDomains when CORE_MEMORIES has returned *)
Unlock ==
  \E c \in Callers :
    \E more \in {ret[c].err = "nil" /\ ret[c].section < Len(sections(call[c]))} :
      /\ pc[c] = "unlock"
      /\ client' = [client EXCEPT
                      !.lock = 0,
                      !.currentDomainsNil =
                        IF call[c].discover /\ ret[c].section = 2 /\ ret[c].err = "nil"
                        THEN FALSE ELSE @]
      /\ ret' = [ret EXCEPT ![c].section = IF more THEN @ + 1 ELSE @,
                            ![c].i = 1]
      /\ pc' = [pc EXCEPT ![c] = IF more THEN "lock" ELSE "idle"]
      /\ UNCHANGED <<call, peer, rx, tx, nreq>>

(* the emulator answers the next command *)
PeerAnswers ==
  /\ nreq < Len(tx)
  /\ \E kind \in {"bin", "ascii"} : rx' = Append(rx, kind)
  /\ nreq' = nreq + 1
  /\ UNCHANGED <<call, peer, tx, ret, pc, client>>

InitLock ==
  /\ call = [c \in Callers |-> Idle]
  /\ peer = <<>>
  /\ rx = <<>>
  /\ tx = <<>>
  /\ nreq = 0
  /\ ret = [c \in Callers |-> Progress(1, 1, {}, {}, "nil")]
  /\ pc = [c \in Callers |-> "idle"]
  /\ \E discovered \in BOOLEAN : client = [lock |-> 0, currentDomainsNil |-> ~discovered]

NextLock ==
  \/ Invoke
  \/ Lock
  \/ writeWithDeadline
  \/ readResponse
  \/ Unlock
  \/ PeerAnswers

SpecLock == InitLock /\ [][NextLock]_vars

(***************************************************************************)
(* MemoryDomains, and clients that are called more than once.              *)
(***************************************************************************)
MaxCalls == 2

(* the assignment that opens MemoryDomains: currentDomains and
   currentPlatform are set to nil, currentCore is not *)
invalidate(cl) ==
  [cl EXCEPT !.currentDomainsNil = TRUE, !.currentDomains = <<>>, !.currentPlatform = <<>>]

(* one sni.MemoryDomain of the response *)
MemoryDomain(d) ==
  [name |-> d.name, isExposed |-> d.isExposed, isCoreSpecific |-> d.isCoreSpecific,
   size |-> d.size, isReadable |-> d.isReadable, isWriteable |-> d.isWriteable]

DomainsResponse(cl, domains) ==
  [rspNil |-> FALSE,
   rsp |-> [coreName |-> coresConfig[cl.currentCore].name,
            domains |-> [i \in 1..Len(domains) |-> MemoryDomain(domains[i])]],
   err |-> NoError]

(* a MemoryDomains that appends the discovered domains to those it had *)
memoryDomainsAppending(io, cl, conn, over) ==
  Let(determineDomainMapping(io, invalidate(cl), conn, over), LAMBDA d :
    IF d.err.kind # "nil" THEN Failed(d.io, d.client, d.err)
    ELSE Let([d.client EXCEPT !.currentDomains = cl.currentDomains \o @], LAMBDA appended :
           DomainOutcome(d.io, appended, DomainsResponse(appended, appended.currentDomains))))

memoryDomains(io, cl, conn, over) ==
  Let(determineDomainMapping(io, invalidate(cl), conn, over), LAMBDA d :
    IF d.err.kind # "nil" THEN Failed(d.io, d.client, d.err)
    ELSE DomainOutcome(d.io, d.client, DomainsResponse(d.client, d.client.currentDomains)))

MemoryDomains ==
  /\ pc = "ready"
  /\ call.op = "MemoryDomains"
  /\ \E over \in 0..MaxOver :
       \E out \in {memoryDomains(Here, client, call.conn, over)} :
         ReturnDomain(out)
  /\ UNCHANGED <<call, peer>>

(* The calls of a session and what the emulator answers to each.  A call
   keeps what the session was when it was made: the number of the call, the
   bytes written and the requests answered before it, the client before it,
   and the call before it with what it returned and was answered. *)
SessionCalls ==
  { [op |-> "MemoryDomains", requests |-> <<>>],
    [op |-> "MultiDomainRead",
     requests |-> << [name |-> WRAM, reads |-> << [offset |-> 0, size |-> 1],
                                                  [offset |-> 16, size |-> 2] >>] >>],
    [op |-> "MultiDomainWrite",
     requests |-> << [name |-> WRAM, writes |-> << [offset |-> 0, data |-> <<3>>] >>] >>] }

Discovers(c, cl) == c.op = "MemoryDomains" \/ cl.currentDomainsNil

SessionReplies(c) ==
  CASE c.op = "MemoryDomains" -> {<<>>}
    [] c.op = "MultiDomainRead" ->
         {FullPeer(DomainReadTotals(c.requests)), <<ErrorBadReply>>}
    [] c.op = "MultiDomainWrite" -> {<<AckReply>>, <<ErrorBadReply>>}

(* a core that reports its work RAM alone, 8 bytes that can only be read *)
MemoriesWramOnly == <<LF>> \o Memory(WRAM, <<56>>, AccessR) \o <<LF>>

(* a core that reports its work RAM twice: 8 bytes to read and write, then 9
   bytes to read *)
MemoriesTwice ==
  <<LF>> \o Memory(WRAM, <<56>>, AccessRW) \o Memory(WRAM, <<57>>, AccessR) \o <<LF>>

SessionDiscoveries ==
  DiscoveryReplies \cup { <<CoreInfoReply, MemoriesWramOnly>>, <<CoreInfoReply, MemoriesTwice>> }

SessionPeers(c, cl) ==
  { d \o r : d \in (IF Discovers(c, cl) THEN SessionDiscoveries ELSE {<<>>}),
             r \in SessionReplies(c) }

NoCall == [op |-> "none", ret |-> NotReturned, replies |-> <<>>, discovers |-> FALSE]

SessionCall(c, n, last) ==
  [op |-> c.op, requests |-> c.requests, conn |-> "up", n |-> n,
   sent |-> Len(tx), asked |-> nreq, before |-> client,
   discovers |-> Discovers(c, client), last |-> last]

InitSession ==
  /\ client \in {NoClient, UnconfiguredClient}
  /\ rx = <<>>
  /\ tx = <<>>
  /\ nreq = 0
  /\ ret = NotReturned
  /\ pc = "ready"
  /\ \E c \in SessionCalls :
       /\ call = SessionCall(c, 1, NoCall)
       /\ peer \in SessionPeers(c, client)

(* what the emulator answered to the requests made so far, nothing where it
   did not answer *)
Answered == [k \in 1..nreq |-> IF k <= Len(peer) THEN peer[k] ELSE <<>>]

(* the caller calls again; the answers the emulator had for requests that
   were not made are dropped *)
CallAgain ==
  /\ pc = "returned"
  /\ call.n < MaxCalls
  /\ \E c \in SessionCalls :
       /\ call' = SessionCall(c, call.n + 1,
                              [op |-> call.op, ret |-> ret, replies |-> Drop(peer, call.asked),
                               discovers |-> call.discovers])
       /\ \E p \in SessionPeers(c, client) : peer' = Answered \o p
  /\ pc' = "ready"
  /\ UNCHANGED <<rx, tx, nreq, ret, client>>

NextSession ==
  \/ MemoryDomains
  \/ MultiDomainRead
  \/ MultiDomainWrite
  \/ CallAgain

SpecSession == InitSession /\ [][NextSession]_vars

(***************************************************************************)
(* FetchFields calls, and the replies of their peers.                      *)
(***************************************************************************)
MaxFields == 2

(* the fields of FetchFields' switches, and one that neither switch names *)
FieldNames ==
  {"DeviceName", "DeviceVersion", "DeviceStatus", "CoreName", "CoreVersion", "CorePlatform",
   "RomFileName", "RomHashValue"}

InfoLine(key, value) == key \o <<COLON>> \o value \o <<LF>>

(* replies that have every key FetchFields looks for, with values of their own *)
InfoReply(mark) ==
  <<LF>> \o InfoLine(KeyName, <<110, mark>>) \o InfoLine(KeyVersion, <<118, mark>>)
    \o InfoLine(KeyPlatform, <<112, mark>>) \o InfoLine(KeyState, <<115, mark>>)
    \o InfoLine(KeyFile, <<102, mark>>) \o <<LF>>

InfoReplies == {InfoReply(49), InfoReply(50), ErrorBadReply}

FieldsReturned(values, err) == [values |-> values, err |-> err]

FetchFields ==
  /\ pc = "ready"
  /\ call.op = "FetchFields"
  /\ \E over \in 0..MaxOver :
       \E out \in {fetchFields(Here, call.fields, call.conn, over)} :
         Return([io |-> out.io, ret |-> FieldsReturned(out.values, out.err)])
  /\ UNCHANGED <<call, peer, client>>

InitFields ==
  /\ \E fields \in SeqsUpTo(FieldNames, MaxFields) :
       call = [op |-> "FetchFields", fields |-> fields, conn |-> "up"]
  /\ peer \in SeqsUpTo(InfoReplies, MaxFields)
  /\ rx = <<>>
  /\ tx = <<>>
  /\ nreq = 0
  /\ ret = FieldsReturned(<<>>, NoError)
  /\ pc = "ready"
  /\ client = NoClient

NextFields == FetchFields

SpecFields == InitFields /\ [][NextFields]_vars

(***************************************************************************)
(* Connecting and closing: the NWA Client over TCP and the UDPClient.  In  *)
(* this part client is the client's fields with c the number of its handle *)
(* (0 is nil), peer the handles that were dialed, tx and rx grow by one    *)
(* byte for a write and a read that reach a handle, and nreq counts the    *)
(* writes and reads the UDPClient asks of its socket, failed ones too.     *)
(***************************************************************************)
MaxOps == 4

NilHandle == 0

Handle == [closes |-> 0]

Handles(handles, nilCloses) == [handles |-> handles, nilCloses |-> nilCloses]

NewClient(kind) == [kind |-> kind, isConnected |-> FALSE, isClosed |-> FALSE, c |-> NilHandle]

Op(name) == [op |-> name, n |-> call.n + 1]

Result(kind) == [err |-> kind]

(* a method called through a nil *net.TCPConn or *net.UDPConn: the method of
   the embedded conn returns EINVAL, reaching the embedded conn may panic *)
NilConn == {"EINVAL", "panic"}

(* c.c.Close() *)
connClose(p, c) ==
  IF c = NilHandle THEN Handles(p.handles, p.nilCloses + 1)
  ELSE Handles([p.handles EXCEPT ![c].closes = @ + 1], p.nilCloses)

IsOpen(p, c) == c # NilHandle /\ p.handles[c].closes = 0

ClientConnect ==
  /\ client.kind = "nwa" /\ call.n < MaxOps
  /\ call' = Op("Connect")
  /\ \/ /\ client' = [client EXCEPT !.isClosed = FALSE, !.isConnected = FALSE]
        /\ ret' = Result("error")
        /\ peer' = peer
     \/ /\ peer' = Handles(Append(peer.handles, Handle), peer.nilCloses)
        /\ client' = [client EXCEPT !.isClosed = FALSE, !.isConnected = TRUE,
                                    !.c = Len(peer.handles) + 1]
        /\ ret' = Result("nil")
  /\ UNCHANGED <<rx, tx, nreq, pc>>

ClientClose ==
  /\ client.kind = "nwa" /\ call.n < MaxOps
  /\ call' = Op("Close")
  /\ client' = [client EXCEPT !.isClosed = TRUE, !.isConnected = FALSE]
  /\ peer' = connClose(peer, client.c)
  /\ IF client.c = NilHandle THEN \E e \in NilConn : ret' = Result(e)
     ELSE ret' = Result(IF IsOpen(peer, client.c) THEN "nil" ELSE "error")
  /\ UNCHANGED <<rx, tx, nreq, pc>>

(* writeWithDeadline: the write succeeds or fails on an open handle *)
ClientWriteWithDeadline ==
  /\ client.kind = "nwa" /\ call.n < MaxOps
  /\ call' = Op("writeWithDeadline")
  /\ IF client.c = NilHandle THEN (\E e \in NilConn : ret' = Result(e)) /\ tx' = tx
     ELSE IF ~IsOpen(peer, client.c) THEN ret' = Result("fatal") /\ tx' = tx
     ELSE \/ ret' = Result("nil") /\ tx' = Append(tx, 0)
          \/ ret' = Result("fatal") /\ tx' = tx
  /\ UNCHANGED <<rx, nreq, pc, peer, client>>

(* readResponse: the read succeeds or fails on an open handle *)
ClientReadResponse ==
  /\ client.kind = "nwa" /\ call.n < MaxOps
  /\ call' = Op("readResponse")
  /\ IF client.c = NilHandle THEN (\E e \in NilConn : ret' = Result(e)) /\ rx' = rx
     ELSE IF ~IsOpen(peer, client.c) THEN ret' = Result("fatal") /\ rx' = rx
     ELSE \/ ret' = Result("nil") /\ rx' = Append(rx, 0)
          \/ ret' = Result("fatal") /\ rx' = rx
  /\ UNCHANGED <<tx, nreq, pc, peer, client>>

UDPClientConnect ==
  /\ client.kind = "udp" /\ call.n < MaxOps
  /\ call' = Op("Connect")
  /\ IF client.isConnected THEN ret' = Result("error") /\ UNCHANGED <<client, peer>>
     ELSE \/ /\ client' = [client EXCEPT !.c = NilHandle]
             /\ ret' = Result("error")
             /\ peer' = peer
          \/ /\ peer' = Handles(Append(peer.handles, Handle), peer.nilCloses)
             /\ client' = [client EXCEPT !.c = Len(peer.handles) + 1, !.isConnected = TRUE]
             /\ ret' = Result("nil")
  /\ UNCHANGED <<rx, tx, nreq, pc>>

(* UDPClient.Close on the client cl and the handles p *)
udpClose(cl, p) ==
  IF ~cl.isConnected THEN [client |-> cl, peer |-> p]
  ELSE [client |-> [cl EXCEPT !.isClosed = TRUE, !.isConnected = FALSE, !.c = NilHandle],
        peer |-> IF cl.c # NilHandle THEN connClose(p, cl.c) ELSE p]

UDPClientClose ==
  /\ client.kind = "udp" /\ call.n < MaxOps
  /\ call' = Op("Close")
  /\ \E closed \in {udpClose(client, peer)} : client' = closed.client /\ peer' = closed.peer
  /\ ret' = Result("nil")
  /\ UNCHANGED <<rx, tx, nreq, pc>>

UDPClientDisconnect ==
  /\ client.kind = "udp" /\ call.n < MaxOps
  /\ call' = Op("Disconnect")
  /\ \E closed \in {udpClose(client, peer)} : client' = closed.client /\ peer' = closed.peer
  /\ ret' = Result("nil")
  /\ UNCHANGED <<rx, tx, nreq, pc>>

(* how a write or a read on an open handle ends: an error that is a timeout or
   net.ErrClosed closes the client *)
IOResults == {"nil", "timeout", "closed", "error"}

(* only a timeout closes the client *)
udpAfterIOTimeoutOnly(e) == IF e = "timeout" THEN udpClose(client, peer)
                            ELSE [client |-> client, peer |-> peer]

udpAfterIO(e) == IF e \in {"timeout", "closed"} THEN udpClose(client, peer)
                 ELSE [client |-> client, peer |-> peer]

UDPClientWriteWithDeadline ==
  /\ client.kind = "udp" /\ call.n < MaxOps
  /\ call' = Op("WriteWithDeadline")
  /\ IF client.isClosed THEN ret' = Result("closed") /\ UNCHANGED <<tx, client, peer>>
     ELSE IF client.c = NilHandle
     THEN (\E e \in NilConn : ret' = Result(e)) /\ UNCHANGED <<tx, client, peer>>
     ELSE \E e \in IOResults :
            /\ ret' = Result(e)
            /\ tx' = IF e = "nil" THEN Append(tx, 0) ELSE tx
            /\ \E after \in {udpAfterIO(e)} : client' = after.client /\ peer' = after.peer
  /\ nreq' = IF client.isClosed THEN nreq ELSE nreq + 1
  /\ UNCHANGED <<rx, pc>>

UDPClientReadWithDeadline ==
  /\ client.kind = "udp" /\ call.n < MaxOps
  /\ call' = Op("ReadWithDeadline")
  /\ IF client.isClosed THEN ret' = Result("closed") /\ UNCHANGED <<rx, client, peer>>
     ELSE IF client.c = NilHandle
     THEN (\E e \in NilConn : ret' = Result(e)) /\ UNCHANGED <<rx, client, peer>>
     ELSE \E e \in IOResults :
            /\ ret' = Result(e)
            /\ rx' = IF e = "nil" THEN Append(rx, 0) ELSE rx
            /\ \E after \in {udpAfterIO(e)} : client' = after.client /\ peer' = after.peer
  /\ nreq' = IF client.isClosed THEN nreq ELSE nreq + 1
  /\ UNCHANGED <<tx, pc>>

UDPClientReadWithDeadlineInto ==
  /\ client.kind = "udp" /\ call.n < MaxOps
  /\ call' = Op("ReadWithDeadlineInto")
  /\ IF client.isClosed THEN ret' = Result("closed") /\ UNCHANGED <<rx, client, peer>>
     ELSE IF client.c = NilHandle
     THEN (\E e \in NilConn : ret' = Result(e)) /\ UNCHANGED <<rx, client, peer>>
     ELSE \E e \in IOResults :
            /\ ret' = Result(e)
            /\ rx' = IF e = "nil" THEN Append(rx, 0) ELSE rx
            /\ \E after \in {udpAfterIO(e)} : client' = after.client /\ peer' = after.peer
  /\ nreq' = IF client.isClosed THEN nreq ELSE nreq + 1
  /\ UNCHANGED <<tx, pc>>

(* WriteThenRead of one caller: the write, and the read when the write went
   well; the read tests isClosed again and finds it false *)
UDPClientWriteThenRead ==
  /\ client.kind = "udp" /\ call.n < MaxOps
  /\ call' = Op("WriteThenRead")
  /\ IF client.isClosed
     THEN ret' = Result("closed") /\ UNCHANGED <<tx, rx, nreq, client, peer>>
     ELSE IF client.c = NilHandle
     THEN /\ \E e \in NilConn : ret' = Result(e)
          /\ nreq' = nreq + 1
          /\ UNCHANGED <<tx, rx, client, peer>>
     ELSE \E w \in IOResults :
            IF w # "nil"
            THEN /\ ret' = Result(w)
                 /\ nreq' = nreq + 1
                 /\ \E after \in {udpAfterIO(w)} : client' = after.client /\ peer' = after.peer
                 /\ UNCHANGED <<tx, rx>>
            ELSE \E r \in IOResults :
                   /\ ret' = Result(r)
                   /\ tx' = Append(tx, 0)
                   /\ rx' = IF r = "nil" THEN Append(rx, 0) ELSE rx
                   /\ nreq' = nreq + 2
                   /\ \E after \in {udpAfterIO(r)} : client' = after.client /\ peer' = after.peer
  /\ pc' = pc

InitLife ==
  /\ \E kind \in {"nwa", "udp"} : client = NewClient(kind)
  /\ peer = Handles(<<>>, 0)
  /\ call = [op |-> "new", n |-> 0]
  /\ ret = Result("nil")
  /\ rx = <<>>
  /\ tx = <<>>
  /\ nreq = 0
  /\ pc = "ready"

NextLife ==
  \/ ClientConnect
  \/ ClientClose
  \/ ClientWriteWithDeadline
  \/ ClientReadResponse
  \/ UDPClientConnect
  \/ UDPClientClose
  \/ UDPClientDisconnect
  \/ UDPClientWriteWithDeadline
  \/ UDPClientReadWithDeadline
  \/ UDPClientReadWithDeadlineInto
  \/ UDPClientWriteThenRead

SpecLife == InitLife /\ [][NextLife]_vars

(***************************************************************************)
(* The FX Pak Pro's LS command.  In this part tx is the bytes sent to the  *)
(* port, peer the packets the device has for the host and nreq the count   *)
(* of packets received.                                                    *)
(***************************************************************************)
PacketSize == 512

PathAt == 256

SizeAt == 252

USBA == <<85, 83, 66, 65>>

(* the opcodes, spaces and flags of the protocol *)
OpLS == 4

OpRESPONSE == 15

SpaceFILE == 0

FlagNONE == 0

EndOfListing == 255

NextPacket == 2

(* the length of the path, whatever room the packet has *)
copiedWhole(path) == Len(path)

(* copy(sb[256:], path) *)
copied(path) == Min(Len(path), PacketSize - PathAt)

(* the packet of listFiles: sb[i] of the program is sb[i + 1] here *)
lsRequest(path) ==
  Let(copied(path), LAMBDA n :
    [i \in 1..PacketSize |->
       IF i <= 4 THEN USBA[i]
       ELSE IF i = 5 THEN OpLS
       ELSE IF i = 6 THEN SpaceFILE
       ELSE IF i = 7 THEN FlagNONE
       ELSE IF i > SizeAt /\ i <= SizeAt + 4 THEN PutUint32(n)[i - SizeAt]
       ELSE IF i > PathAt /\ i <= PathAt + n THEN path[i - PathAt]
       ELSE 0])

(* recvSerial: the next packet of the device, or an error when none comes
   before the deadline *)
recvSerial(packets, k) ==
  IF k < Len(packets) THEN [ok |-> TRUE, sb |-> packets[k + 1], k |-> k + 1]
  ELSE [ok |-> FALSE, sb |-> <<>>, k |-> k]

DirEntry(name, type) == [name |-> name, type |-> type]

(* byte 0 taken for a file and byte 1 for a directory *)
entryTypeSwapped(b) == IF b = 0 THEN "File" ELSE IF b = 1 THEN "Directory" ELSE "0"

(* the type of a record: the literal 0 stays when the byte is neither 0 nor 1 *)
entryType(b) == IF b = 0 THEN "Directory" ELSE IF b = 1 THEN "File" ELSE "0"

(* the inner loop over one packet, i counted as in the program *)
RECURSIVE scanRecords(_, _, _)
scanRecords(sb, i, files) ==
  IF i >= PacketSize THEN [next |-> "filled", files |-> files]
  ELSE IF sb[i + 1] = EndOfListing THEN [next |-> "break", files |-> files]
  ELSE IF sb[i + 1] = NextPacket THEN [next |-> "continue", files |-> files]
  ELSE Let(IndexFrom(sb, 0, i + 2), LAMBDA nul :
         IF nul = 0 THEN [next |-> "invalid", files |-> files]
         ELSE scanRecords(sb, nul,
                Append(files, DirEntry(SubSeq(sb, i + 2, nul - 1), entryType(sb[i + 1])))))

LsReturned(k, files, filesNil, err) == [k |-> k, files |-> files, filesNil |-> filesNil, err |-> err]

RECURSIVE recvLoop(_, _, _)
recvLoop(packets, k, files) ==
  Let(recvSerial(packets, k), LAMBDA rc :
    IF ~rc.ok THEN LsReturned(rc.k, files, FALSE, FatalError(<<>>))
    ELSE Let(scanRecords(rc.sb, 0, files), LAMBDA sc :
           IF sc.next = "break" THEN LsReturned(rc.k, sc.files, FALSE, NoError)
           ELSE IF sc.next = "invalid" THEN LsReturned(rc.k, <<>>, TRUE, PlainError(<<>>))
           ELSE recvLoop(packets, rc.k, sc.files)))

(* a listFiles that looks at the error byte before the size and the opcode *)
lsResponseErrorFirst(packets) ==
  Let(recvSerial(packets, 0), LAMBDA rc :
    IF ~rc.ok THEN LsReturned(rc.k, <<>>, TRUE, FatalError(<<>>))
    ELSE IF SubSeq(rc.sb, 1, 4) # USBA THEN LsReturned(rc.k, <<>>, TRUE, FatalError(<<>>))
    ELSE IF rc.sb[6] # 0 THEN LsReturned(rc.k, <<>>, TRUE, NonFatalError(<<>>))
    ELSE IF BigEndian(SubSeq(rc.sb, SizeAt + 1, SizeAt + 4)) # 1
    THEN LsReturned(rc.k, <<>>, TRUE, FatalError(<<>>))
    ELSE IF rc.sb[5] # OpRESPONSE THEN LsReturned(rc.k, <<>>, TRUE, FatalError(<<>>))
    ELSE recvLoop(packets, rc.k, <<>>))

(* listFiles behind sendSerial *)
lsResponse(packets) ==
  Let(recvSerial(packets, 0), LAMBDA rc :
    IF ~rc.ok THEN LsReturned(rc.k, <<>>, TRUE, FatalError(<<>>))
    ELSE IF SubSeq(rc.sb, 1, 4) # USBA THEN LsReturned(rc.k, <<>>, TRUE, FatalError(<<>>))
    ELSE IF BigEndian(SubSeq(rc.sb, SizeAt + 1, SizeAt + 4)) # 1
    THEN LsReturned(rc.k, <<>>, TRUE, FatalError(<<>>))
    ELSE IF rc.sb[5] # OpRESPONSE THEN LsReturned(rc.k, <<>>, TRUE, FatalError(<<>>))
    ELSE IF rc.sb[6] # 0 THEN LsReturned(rc.k, <<>>, TRUE, NonFatalError(<<>>))
    ELSE recvLoop(packets, rc.k, <<>>))

listFiles ==
  /\ pc = "ready"
  /\ call.op = "listFiles"
  /\ IF call.send = "fails"
     THEN /\ ret' = LsReturned(0, <<>>, TRUE, FatalError(<<>>))
          /\ UNCHANGED <<tx, nreq>>
     ELSE /\ tx' = tx \o lsRequest(call.path)
          /\ \E out \in {lsResponse(peer)} : ret' = out /\ nreq' = out.k
  /\ pc' = "returned"
  /\ UNCHANGED <<call, peer, rx, client>>

(***************************************************************************)
(* listFiles calls, and the packets of their devices.                      *)
(***************************************************************************)
MaxPathOver == 1

MaxPackets == 2

Filled(n, b) == [i \in 1..n |-> b]

(* paths that are empty, short, and around the room behind byte 256 *)
LsPaths ==
  {<<>>, <<47>>} \cup {Filled(n, 97) : n \in (PacketSize - PathAt - 1)..(PacketSize - PathAt + MaxPathOver)}

Packet(body, fill) == [i \in 1..PacketSize |-> IF i <= Len(body) THEN body[i] ELSE fill]

Header(magic, size, op, ec) ==
  [i \in 1..PacketSize |->
     IF i <= 4 THEN magic[i]
     ELSE IF i = 5 THEN op
     ELSE IF i = 6 THEN ec
     ELSE IF i > SizeAt /\ i <= SizeAt + 4 THEN PutUint32(size)[i - SizeAt]
     ELSE 0]

GoodHeader == Header(USBA, 1, OpRESPONSE, 0)

Headers ==
  { GoodHeader, Header(<<85, 83, 66, 66>>, 1, OpRESPONSE, 0), Header(USBA, 0, OpRESPONSE, 0),
    Header(USBA, 257, OpRESPONSE, 0), Header(USBA, 1, OpLS, 0), Header(USBA, 1, OpRESPONSE, 5),
    Header(USBA, 1, OpLS, 5), Header(USBA, 2, OpRESPONSE, 5) }

Record(type, name) == <<type>> \o name \o <<0>>

MenuBin == <<109, 101, 110, 117, 46, 98, 105, 110>>

Games == <<103, 97, 109, 101, 115>>

(* file "menu.bin", directory "games", the end *)
ListingEnd == Packet(Record(1, MenuBin) \o Record(0, Games) \o <<EndOfListing>>, 0)

(* file "a", then more in the next packet; what follows the 2 is not records *)
ListingMore == Packet(Record(1, <<97>>) \o <<NextPacket>>, 1)

(* one record that fills the packet to its last byte *)
ListingFilled == Packet(Record(0, Filled(PacketSize - 2, 98)), 0)

(* a record whose name runs to the end of the packet *)
ListingUnterminated == Packet(Record(1, <<97>>) \o <<1>>, 97)

(* a record of a type that is neither 0 nor 1 *)
ListingOther == Packet(Record(7, <<120>>) \o <<EndOfListing>>, 0)

DataPackets == {ListingEnd, ListingMore, ListingFilled, ListingUnterminated, ListingOther}

LsPeers == {<<>>} \cup { <<h>> \o d : h \in Headers, d \in SeqsUpTo(DataPackets, MaxPackets) }

LsCalls == [op : {"listFiles"}, path : LsPaths, send : {"ok", "fails"}]

InitLs ==
  /\ call \in LsCalls
  /\ peer \in LsPeers
  /\ rx = <<>>
  /\ tx = <<>>
  /\ nreq = 0
  /\ ret = LsReturned(0, <<>>, TRUE, NoError)
  /\ pc = "ready"
  /\ client = NoClient

NextLs == listFiles

SpecLs == InitLs /\ [][NextLs]_vars

(***************************************************************************)
(* listFiles of several callers on one device, step by step.  In this part *)
(* client is the device with its lock (0 is free), call and ret are per    *)
(* caller, tx is the packets sent and received in their order, each as the *)
(* caller it belongs to and its kind, packets of one kind and caller that  *)
(* follow each other taken as one.                                         *)
(***************************************************************************)
MaxLsCallers == 2

LsCallers == 1..MaxLsCallers

Free == 0

LsIdle == [shouldLock |-> TRUE, enclosed |-> FALSE]

LsProgress(locks, unlocks, err) == [locks |-> locks, unlocks |-> unlocks, err |-> err]

Exchanged(log, c, kind) ==
  IF log # <<>> /\ log[Len(log)] = [c |-> c, kind |-> kind] THEN log
  ELSE Append(log, [c |-> c, kind |-> kind])

(* a sequence of commands that holds the lock around the calls nested in it;
   the context it hands to them makes shouldLock false *)
LsEnclose(c) ==
  /\ pc[c] = "idle" /\ ~call[c].enclosed
  /\ client.lock = Free
  /\ client' = [client EXCEPT !.lock = c]
  /\ call' = [call EXCEPT ![c] = [shouldLock |-> FALSE, enclosed |-> TRUE]]
  /\ UNCHANGED <<peer, rx, tx, nreq, ret, pc>>

LsRelease(c) ==
  /\ pc[c] = "done" /\ call[c].enclosed
  /\ client' = [client EXCEPT !.lock = Free]
  /\ call' = [call EXCEPT ![c].enclosed = FALSE]
  /\ UNCHANGED <<peer, rx, tx, nreq, ret, pc>>

(* listFiles is called: the request packet is built *)
LsInvoke(c) ==
  /\ pc[c] = "idle"
  /\ pc' = [pc EXCEPT ![c] = "lock"]
  /\ UNCHANGED <<call, peer, rx, tx, nreq, ret, client>>

(* a caller that takes the lock although another holds it *)
LsLockBarging(c) ==
  /\ pc[c] = "lock"
  /\ IF call[c].shouldLock
     THEN /\ client' = [client EXCEPT !.lock = c]
          /\ ret' = [ret EXCEPT ![c].locks = @ + 1]
     ELSE UNCHANGED <<client, ret>>
  /\ pc' = [pc EXCEPT ![c] = "send"]
  /\ UNCHANGED <<call, peer, rx, tx, nreq>>

(* if shouldLock(ctx) { defer d.lock.Unlock(); d.lock.Lock() } *)
LsLock(c) ==
  /\ pc[c] = "lock"
  /\ IF call[c].shouldLock
     THEN /\ client.lock = Free
          /\ client' = [client EXCEPT !.lock = c]
          /\ ret' = [ret EXCEPT ![c].locks = @ + 1]
     ELSE UNCHANGED <<client, ret>>
  /\ pc' = [pc EXCEPT ![c] = "send"]
  /\ UNCHANGED <<call, peer, rx, tx, nreq>>

LsSend(c) ==
  /\ pc[c] = "send"
  /\ \/ /\ tx' = Exchanged(tx, c, "request")
        /\ pc' = [pc EXCEPT ![c] = "header"]
        /\ ret' = ret
     \/ /\ tx' = tx
        /\ pc' = [pc EXCEPT ![c] = "return"]
        /\ ret' = [ret EXCEPT ![c].err = "fatal"]
  /\ UNCHANGED <<call, peer, rx, nreq, client>>

(* the header: not received or not valid, with an error byte, or good *)
LsHeader(c) ==
  /\ pc[c] = "header"
  /\ \/ /\ tx' = tx
        /\ pc' = [pc EXCEPT ![c] = "return"]
        /\ ret' = [ret EXCEPT ![c].err = "fatal"]
     \/ /\ tx' = Exchanged(tx, c, "header")
        /\ \E e \in {"fatal", "nonfatal"} :
             /\ pc' = [pc EXCEPT ![c] = "return"]
             /\ ret' = [ret EXCEPT ![c].err = e]
     \/ /\ tx' = Exchanged(tx, c, "header")
        /\ pc' = [pc EXCEPT ![c] = "data"]
        /\ ret' = ret
  /\ UNCHANGED <<call, peer, rx, nreq, client>>

(* one pass of the receive loop *)
LsData(c) ==
  /\ pc[c] = "data"
  /\ \/ /\ tx' = tx
        /\ pc' = [pc EXCEPT ![c] = "return"]
        /\ ret' = [ret EXCEPT ![c].err = "fatal"]
     \/ /\ tx' = Exchanged(tx, c, "data")
        /\ \E e \in {"nil", "plain"} :
             /\ pc' = [pc EXCEPT ![c] = "return"]
             /\ ret' = [ret EXCEPT ![c].err = e]
     \/ /\ tx' = Exchanged(tx, c, "data")
        /\ pc' = pc
        /\ ret' = ret
  /\ UNCHANGED <<call, peer, rx, nreq, client>>

(* the return, with the deferred Unlock when there is one *)
LsReturn(c) ==
  /\ pc[c] = "return"
  /\ IF call[c].shouldLock
     THEN /\ client' = [client EXCEPT !.lock = Free]
          /\ ret' = [ret EXCEPT ![c].unlocks = @ + 1]
     ELSE UNCHANGED <<client, ret>>
  /\ pc' = [pc EXCEPT ![c] = "done"]
  /\ UNCHANGED <<call, peer, rx, tx, nreq>>

InitLsLock ==
  /\ call = [c \in LsCallers |-> LsIdle]
  /\ ret = [c \in LsCallers |-> LsProgress(0, 0, "nil")]
  /\ pc = [c \in LsCallers |-> "idle"]
  /\ client = [lock |-> Free]
  /\ peer = <<>>
  /\ rx = <<>>
  /\ tx = <<>>
  /\ nreq = 0

NextLsLock ==
  \E c \in LsCallers :
    \/ LsEnclose(c)
    \/ LsRelease(c)
    \/ LsInvoke(c)
    \/ LsLock(c)
    \/ LsSend(c)
    \/ LsHeader(c)
    \/ LsData(c)
    \/ LsReturn(c)

SpecLsLock == InitLsLock /\ [][NextLsLock]_vars

(***************************************************************************)
(* TranslateAddress.  In this part call is the source address tuple with   *)
(* the device's address space, peer is what the mapping library answers    *)
(* for the address when it is asked, and ret is what TranslateAddress      *)
(* returned.  The conversions between bus and pak addresses are the        *)
(* library's: its answer is any address without error, or its own error.   *)
(***************************************************************************)
AddressSpaces == {"FxPakPro", "SnesABus", "Raw", "Other"}

MemoryMappings == {"Unknown", "HiROM", "LoROM", "ExHiROM", "SA1", "Other"}

LibraryMappings == {"LoROM", "HiROM", "ExHiROM", "SA1"}

Addresses == {0, 32768, 8257827, 16056611}

AddressTuple(address, space, mapping) ==
  [Address |-> address, AddressSpace |-> space, MemoryMapping |-> mapping]

Translated(address, err) == [address |-> address, err |-> err]

(* the default branches return the address unchanged *)
TranslateAddressLenient(sourceAddress, deviceSpace, library) ==
  IF /\ {sourceAddress.AddressSpace, deviceSpace} = {"FxPakPro", "SnesABus"}
     /\ sourceAddress.MemoryMapping \in LibraryMappings
  THEN library
  ELSE Translated(sourceAddress.Address, "nil")

TranslateAddress(sourceAddress, deviceSpace, library) ==
  Let(sourceAddress.Address, LAMBDA address :
    IF sourceAddress.AddressSpace = "Raw" THEN Translated(address, "nil")
    ELSE IF sourceAddress.AddressSpace = "FxPakPro" THEN
      IF deviceSpace = "Raw" THEN Translated(address, "nil")
      ELSE IF deviceSpace = "FxPakPro" THEN Translated(address, "nil")
      ELSE IF deviceSpace = "SnesABus" THEN
        IF sourceAddress.MemoryMapping \in LibraryMappings THEN library
        ELSE Translated(0, "ErrUnknownMapping")
      ELSE Translated(address, "nil")
    ELSE IF sourceAddress.AddressSpace = "SnesABus" THEN
      IF deviceSpace = "Raw" THEN Translated(address, "nil")
      ELSE IF deviceSpace = "SnesABus" THEN Translated(address, "nil")
      ELSE IF deviceSpace = "FxPakPro" THEN
        IF sourceAddress.MemoryMapping \in LibraryMappings THEN library
        ELSE Translated(0, "ErrUnknownMapping")
      ELSE Translated(address, "nil")
    ELSE Translated(address, "nil"))

translateAddress ==
  /\ pc = "ready" /\ call.op = "TranslateAddress"
  /\ ret' = TranslateAddress(call.sourceAddress, call.deviceSpace, peer)
  /\ pc' = "returned"
  /\ UNCHANGED <<call, peer, rx, tx, nreq, client>>

LibraryAnswers ==
  {Translated(a, "nil") : a \in Addresses} \cup {Translated(0, "library")}

InitTranslate ==
  /\ call \in [op : {"TranslateAddress"},
               sourceAddress : {AddressTuple(a, s, m) :
                                  a \in Addresses, s \in AddressSpaces, m \in MemoryMappings},
               deviceSpace : AddressSpaces]
  /\ peer \in LibraryAnswers
  /\ ret = Translated(0, "nil")
  /\ pc = "ready"
  /\ rx = <<>> /\ tx = <<>> /\ nreq = 0
  /\ client = [open |-> TRUE]

NextTranslate == translateAddress

SpecTranslate == InitTranslate /\ [][NextTranslate]_vars

(***************************************************************************)
(* Opening the serial port of the FX Pak Pro.  In this part call is the    *)
(* operating system with the baud query of the device's URI, peer is the   *)
(* serial library's side (the rates at which Open succeeds and whether     *)
(* SetDTR succeeds), and ret is what openPort did and returned.            *)
(***************************************************************************)
baudRates ==
  <<921600, 460800, 256000, 230400, 153600, 128000, 115200,
    76800, 57600, 38400, 28800, 19200, 14400, 9600>>

NilPort == "nil"

(* strconv.Atoi: the number, or 0 for a string that is not one *)
Atoi(baudStr) == IF baudStr.number THEN baudStr.value ELSE 0

(* openDevice: the rate asked of openPort *)
baudRequestOf(goos, baudStr) ==
  IF baudStr.present THEN Atoi(baudStr)
  ELSE IF goos = "darwin" THEN baudRates[4] ELSE baudRates[1]

Opening(f, err, baud, tried) == [f |-> f, err |-> err, baud |-> baud, tried |-> tried]

(* the loop over baudRates from the i-th on *)
RECURSIVE tryRates(_, _, _, _)
tryRates(i, baudRequest, working, o) ==
  IF i > Len(baudRates) THEN o
  ELSE IF baudRates[i] > baudRequest THEN tryRates(i + 1, baudRequest, working, o)
  ELSE IF baudRates[i] \in working
       THEN Opening("open", "nil", baudRates[i], Append(o.tried, baudRates[i]))
       ELSE tryRates(i + 1, baudRequest, working,
                     Opening(NilPort, "open", 0, Append(o.tried, baudRates[i])))

PortReturned(f, err, o, dtr, left, panic) ==
  [f |-> f, err |-> err, baud |-> o.baud, tried |-> o.tried,
   dtr |-> dtr, left |-> left, panic |-> panic]

openPort(baudRequest, working, dtrOk) ==
  Let(tryRates(1, baudRequest, working, Opening(NilPort, "nil", 0, <<>>)), LAMBDA o :
    IF o.err # "nil" THEN PortReturned(NilPort, "open", o, FALSE, 0, FALSE)
    ELSE IF o.f = NilPort THEN PortReturned(NilPort, "nil", o, FALSE, 0, TRUE)
    ELSE IF ~dtrOk THEN PortReturned(NilPort, "dtr", o, FALSE, 0, FALSE)
    ELSE PortReturned("open", "nil", o, TRUE, 1, FALSE))

openDevice ==
  /\ pc = "ready" /\ call.op = "openDevice"
  /\ \E baudRequest \in {baudRequestOf(call.goos, call.baudStr)} :
       /\ nreq' = baudRequest
       /\ ret' = openPort(baudRequest, peer.working, peer.dtrOk)
  /\ pc' = "returned"
  /\ UNCHANGED <<call, peer, rx, tx, client>>

NoQuery == [present |-> FALSE, number |-> FALSE, value |-> 0]

NotANumber == [present |-> TRUE, number |-> FALSE, value |-> 0]

Number(n) == [present |-> TRUE, number |-> TRUE, value |-> n]

BaudQueries ==
  {NoQuery, NotANumber} \cup {Number(n) : n \in {9599, 9600, 20000, 230400, 2000000}}

WorkingRates == SUBSET {921600, 230400, 19200, 9600}

InitPort ==
  /\ call \in [op : {"openDevice"}, goos : {"darwin", "windows"}, baudStr : BaudQueries]
  /\ peer \in [working : WorkingRates, dtrOk : BOOLEAN]
  /\ ret = PortReturned(NilPort, "nil", Opening(NilPort, "nil", 0, <<>>), FALSE, 0, FALSE)
  /\ pc = "ready"
  /\ rx = <<>> /\ tx = <<>> /\ nreq = 0
  /\ client = [open |-> FALSE]

NextPort == openDevice

SpecPort == InitPort /\ [][NextPort]_vars

(***************************************************************************)
(* MemoryDomains and MultiDomainRead of several callers on one client,     *)
(* assignment by assignment.  None of the fields of the mapping is read or *)
(* written under the lock; the commands of a discovery are taken whole.    *)
(* In this part client is the three fields, call the operation of each     *)
(* caller, and ret what the caller holds in its local variables and what   *)
(* it returned.                                                            *)
(***************************************************************************)
NilCore == 0

BsnesCore == 1

(* the domains a discovery builds from the platform and CORE_MEMORIES *)
DomainsFound == <<"WRAM", "CARTRAM", "VRAM">>

RaceLocals(domains, err, rsp, deref) ==
  [currentDomains |-> domains, err |-> err, rsp |-> rsp, deref |-> deref]

RaceOps == {"MemoryDomains", "MultiDomainRead"}

RaceInvoke(c) ==
  /\ pc[c] = "idle"
  /\ \E op \in RaceOps :
       /\ call' = [call EXCEPT ![c] = [op |-> op]]
       /\ pc' = [pc EXCEPT ![c] = IF op = "MemoryDomains" THEN "invalidate" ELSE "determine"]
  /\ UNCHANGED <<peer, rx, tx, nreq, ret, client>>

(* c.currentDomains, c.currentPlatform, c.currentDomains = nil, nil, nil *)
RaceInvalidate(c) ==
  /\ pc[c] = "invalidate"
  /\ client' = [client EXCEPT !.currentDomainsNil = TRUE, !.currentDomains = <<>>,
                              !.currentPlatformNil = TRUE]
  /\ pc' = [pc EXCEPT ![c] = "determine"]
  /\ UNCHANGED <<call, peer, rx, tx, nreq, ret>>

(* determineDomainMapping: if c.currentDomains != nil { return } *)
RaceDetermine(c) ==
  /\ pc[c] = "determine"
  /\ pc' = [pc EXCEPT ![c] = IF ~client.currentDomainsNil THEN "use" ELSE "fetch"]
  /\ UNCHANGED <<call, peer, rx, tx, nreq, ret, client>>

(* FetchFields, the match of the core, CORE_MEMORIES and the list built in
   the local currentDomains; any of them may fail *)
RaceFetch(c) ==
  /\ pc[c] = "fetch"
  /\ \/ /\ ret' = [ret EXCEPT ![c].currentDomains = DomainsFound]
        /\ pc' = [pc EXCEPT ![c] = "setCore"]
     \/ /\ ret' = [ret EXCEPT ![c].err = "fatal"]
        /\ pc' = [pc EXCEPT ![c] = "done"]
  /\ UNCHANGED <<call, peer, rx, tx, nreq, client>>

(* c.currentCore = currentCore *)
RaceSetCore(c) ==
  /\ pc[c] = "setCore"
  /\ client' = [client EXCEPT !.currentCore = BsnesCore]
  /\ pc' = [pc EXCEPT ![c] = "setPlatform"]
  /\ UNCHANGED <<call, peer, rx, tx, nreq, ret>>

(* c.currentPlatform = currentPlatform *)
RaceSetPlatform(c) ==
  /\ pc[c] = "setPlatform"
  /\ client' = [client EXCEPT !.currentPlatformNil = FALSE]
  /\ pc' = [pc EXCEPT ![c] = "setDomains"]
  /\ UNCHANGED <<call, peer, rx, tx, nreq, ret>>

(* c.currentDomains = currentDomains *)
RaceSetDomains(c) ==
  /\ pc[c] = "setDomains"
  /\ client' = [client EXCEPT !.currentDomainsNil = FALSE,
                              !.currentDomains = ret[c].currentDomains]
  /\ pc' = [pc EXCEPT ![c] = "use"]
  /\ UNCHANGED <<call, peer, rx, tx, nreq, ret>>

(* the first use of the mapping behind determineDomainMapping:
   c.currentCore.Name in MemoryDomains, c.currentCore.Define in MultiDomainRead *)
RaceUseCore(c) ==
  /\ pc[c] = "use"
  /\ IF client.currentCore = NilCore
     THEN /\ ret' = [ret EXCEPT ![c].deref = "nil"]
          /\ pc' = [pc EXCEPT ![c] = "done"]
     ELSE /\ ret' = [ret EXCEPT ![c].deref = "core"]
          /\ pc' = [pc EXCEPT ![c] = IF call[c].op = "MemoryDomains" THEN "list" ELSE "done"]
  /\ UNCHANGED <<call, peer, rx, tx, nreq, client>>

(* for _, d := range c.currentDomains { rsp.Domains = append(...) } *)
RaceList(c) ==
  /\ pc[c] = "list"
  /\ ret' = [ret EXCEPT ![c].rsp = client.currentDomains]
  /\ pc' = [pc EXCEPT ![c] = "done"]
  /\ UNCHANGED <<call, peer, rx, tx, nreq, client>>

InitRace ==
  /\ call = [c \in Callers |-> [op |-> "none"]]
  /\ ret = [c \in Callers |-> RaceLocals(<<>>, "nil", <<>>, "none")]
  /\ pc = [c \in Callers |-> "idle"]
  /\ client = [currentCore |-> NilCore, currentPlatformNil |-> TRUE,
               currentDomainsNil |-> TRUE, currentDomains |-> <<>>]
  /\ peer = <<>>
  /\ rx = <<>>
  /\ tx = <<>>
  /\ nreq = 0

NextRace ==
  \E c \in Callers :
    \/ RaceInvoke(c)
    \/ RaceInvalidate(c)
    \/ RaceDetermine(c)
    \/ RaceFetch(c)
    \/ RaceSetCore(c)
    \/ RaceSetPlatform(c)
    \/ RaceSetDomains(c)
    \/ RaceUseCore(c)
    \/ RaceList(c)

SpecRace == InitRace /\ [][NextRace]_vars

(***************************************************************************)
(* WriteThenRead of several callers on one connected UDPClient, beside a   *)
(* Close, load by load.  In this part client is the client's fields, the   *)
(* state of its socket and the holder of seqLock (0 is nobody), pc[0] is   *)
(* the place of the caller of Close, and tx is the writes and reads that   *)
(* reached the socket, each as its caller and its kind.                    *)
(***************************************************************************)
Closer == 0

Nobody == 0

SeqLocals(err, locks, unlocks, nilUse) ==
  [err |-> err, locks |-> locks, unlocks |-> unlocks, nilUse |-> nilUse]

(* c.Close() from start to end *)
seqClose(cl) ==
  IF ~cl.isConnected THEN cl
  ELSE [cl EXCEPT !.isClosed = TRUE, !.isConnected = FALSE, !.c = NilHandle,
                  !.open = IF cl.c # NilHandle THEN FALSE ELSE @]

(* how a write or read on the socket ends *)
SeqIOResults(cl) == IF cl.open THEN {"nil", "timeout", "error"} ELSE {"closed"}

seqAfterIO(cl, e) == IF e \in {"timeout", "closed"} THEN seqClose(cl) ELSE cl

(* WriteThenRead: if c.isClosed { return nil, net.ErrClosed } *)
WtrEnter(c) ==
  /\ pc[c] = "idle"
  /\ IF client.isClosed
     THEN /\ ret' = [ret EXCEPT ![c].err = "closed"]
          /\ pc' = [pc EXCEPT ![c] = "done"]
     ELSE /\ ret' = ret
          /\ pc' = [pc EXCEPT ![c] = "lock"]
  /\ UNCHANGED <<call, peer, rx, tx, nreq, client>>

(* defer c.seqLock.Unlock(); c.seqLock.Lock() *)
WtrLock(c) ==
  /\ pc[c] = "lock"
  /\ client.seqLock = Nobody
  /\ client' = [client EXCEPT !.seqLock = c]
  /\ ret' = [ret EXCEPT ![c].locks = @ + 1]
  /\ pc' = [pc EXCEPT ![c] = "writeCheck"]
  /\ UNCHANGED <<call, peer, rx, tx, nreq>>

(* WriteWithDeadline, ReadWithDeadline: if c.isClosed { return net.ErrClosed } *)
WtrCheck(c, stage, next) ==
  /\ pc[c] = stage
  /\ IF client.isClosed
     THEN /\ ret' = [ret EXCEPT ![c].err = "closed"]
          /\ pc' = [pc EXCEPT ![c] = "unlock"]
     ELSE /\ ret' = ret
          /\ pc' = [pc EXCEPT ![c] = next]
  /\ UNCHANGED <<call, peer, rx, tx, nreq, client>>

(* c.c.SetWriteDeadline and c.c.Write, c.c.SetReadDeadline and
   c.c.ReadFromUDP: on a nil socket the call ends as NilConn says; an error
   that is a timeout or net.ErrClosed calls c.Close() *)
WtrIO(c, stage, kind, next) ==
  /\ pc[c] = stage
  /\ IF client.c = NilHandle
     THEN /\ \E e \in NilConn : ret' = [ret EXCEPT ![c].err = e, ![c].nilUse = TRUE]
          /\ pc' = [pc EXCEPT ![c] = "unlock"]
          /\ UNCHANGED <<tx, client>>
     ELSE \E e \in SeqIOResults(client) :
            /\ ret' = [ret EXCEPT ![c].err = e]
            /\ tx' = Append(tx, [c |-> c, kind |-> kind])
            /\ client' = seqAfterIO(client, e)
            /\ pc' = [pc EXCEPT ![c] = IF e = "nil" THEN next ELSE "unlock"]
  /\ UNCHANGED <<call, peer, rx, nreq>>

WtrWriteCheck(c) == WtrCheck(c, "writeCheck", "write")

WtrWrite(c) == WtrIO(c, "write", "write", "readCheck")

WtrReadCheck(c) == WtrCheck(c, "readCheck", "read")

WtrRead(c) == WtrIO(c, "read", "read", "unlock")

(* the return, with the deferred Unlock *)
WtrUnlock(c) ==
  /\ pc[c] = "unlock"
  /\ client' = [client EXCEPT !.seqLock = IF @ = c THEN Nobody ELSE @]
  /\ ret' = [ret EXCEPT ![c].unlocks = @ + 1]
  /\ pc' = [pc EXCEPT ![c] = "done"]
  /\ UNCHANGED <<call, peer, rx, tx, nreq>>

(* Close: if !c.isConnected { return } *)
CloseEnter ==
  /\ pc[Closer] = "idle"
  /\ pc' = [pc EXCEPT ![Closer] = IF client.isConnected THEN "closeSocket" ELSE "done"]
  /\ UNCHANGED <<call, peer, rx, tx, nreq, ret, client>>

(* if c.c != nil { err = c.c.Close() } *)
CloseSocket ==
  /\ pc[Closer] = "closeSocket"
  /\ client' = [client EXCEPT !.open = IF client.c # NilHandle THEN FALSE ELSE @]
  /\ pc' = [pc EXCEPT ![Closer] = "setClosed"]
  /\ UNCHANGED <<call, peer, rx, tx, nreq, ret>>

(* c.isClosed = true; c.isConnected = false *)
CloseSetFlags ==
  /\ pc[Closer] = "setClosed"
  /\ client' = [client EXCEPT !.isClosed = TRUE, !.isConnected = FALSE]
  /\ pc' = [pc EXCEPT ![Closer] = "clear"]
  /\ UNCHANGED <<call, peer, rx, tx, nreq, ret>>

(* c.c = nil *)
CloseClear ==
  /\ pc[Closer] = "clear"
  /\ client' = [client EXCEPT !.c = NilHandle]
  /\ pc' = [pc EXCEPT ![Closer] = "done"]
  /\ UNCHANGED <<call, peer, rx, tx, nreq, ret>>

InitSeq ==
  /\ call = [c \in Callers |-> [op |-> "WriteThenRead"]]
  /\ ret = [c \in Callers |-> SeqLocals("nil", 0, 0, FALSE)]
  /\ pc = [c \in Callers \cup {Closer} |-> "idle"]
  /\ client = [isConnected |-> TRUE, isClosed |-> FALSE, c |-> 1, open |-> TRUE,
               seqLock |-> Nobody]
  /\ peer = <<>>
  /\ rx = <<>>
  /\ tx = <<>>
  /\ nreq = 0

NextSeq ==
  \/ CloseEnter
  \/ CloseSocket
  \/ CloseSetFlags
  \/ CloseClear
  \/ \E c \in Callers :
       \/ WtrEnter(c)
       \/ WtrLock(c)
       \/ WtrWriteCheck(c)
       \/ WtrWrite(c)
       \/ WtrReadCheck(c)
       \/ WtrRead(c)
       \/ WtrUnlock(c)

SpecSeq == InitSeq /\ [][NextSeq]_vars

(***************************************************************************)
(* The FX Pak Pro driver's configuration: DriverConfig                     *)
(*                                                                         *)
(* In SpecConfig call is the platforms.Config handed to DriverConfig, peer *)
(* the capacity policy of the runtime's append, and ret the package        *)
(* variables allDomains and domainByName after the call.  A slice is the   *)
(* number of its backing array in ret.heap; a *snesDomain is an array and  *)
(* a place in it.  rx, tx, nreq and client are not used.                   *)
(***************************************************************************)
MaxPlatformDomains == 2

MaxDriverDomains == 3

(* allDomains before make *)
NoArray == 0

ConfWRAM == <<87, 82, 65, 77>>

ConfSRAM == <<83, 82, 65, 77>>

(* platforms.Domain and start, space of a snesDomain built from a platform's
   DomainConf *)
platformDomain(domainConf) ==
  [name |-> domainConf.name, size |-> domainConf.size, exposed |-> FALSE,
   coreSpecific |-> FALSE, readable |-> FALSE, writeable |-> FALSE,
   space |-> <<>>, start |-> 0]

(* the snesDomain created for a name the platform does not have *)
coreSpecificDomain(domainConf) ==
  [name |-> domainConf.name, size |-> 0, exposed |-> FALSE,
   coreSpecific |-> TRUE, readable |-> FALSE, writeable |-> FALSE,
   space |-> <<>>, start |-> 0]

(* override properties; mark domain as exposed *)
overrideDomain(d, domainConf) ==
  [d EXCEPT !.size = IF domainConf.sizeNil THEN @ ELSE domainConf.size,
            !.readable = domainConf.readable,
            !.writeable = domainConf.writeable,
            !.space = domainConf.space,
            !.start = domainConf.start,
            !.exposed = TRUE]

(* the capacity append gives a full array: what is needed, or the double *)
Growths == {"needed", "double"}

growslice(growth, cap, needed) ==
  IF growth = "double" /\ 2 * cap > needed THEN 2 * cap ELSE needed

(* domainByName[name] = p *)
mapStore(byName, name, p) ==
  [n \in (DOMAIN byName) \cup {name} |-> IF n = name THEN p ELSE byName[n]]

(* allDomains = make([]snesDomain, len(allSnesDomains)) and the loop that
   fills allDomains[i] and domainByName *)
RECURSIVE platformByName(_, _, _)
platformByName(allSnesDomains, i, byName) ==
  IF i > Len(allSnesDomains) THEN byName
  ELSE platformByName(allSnesDomains, i + 1,
         mapStore(byName, ToLower(allSnesDomains[i].name), [arr |-> 1, idx |-> i]))

allSnesDomainsOf(allSnesDomains) ==
  [heap |-> << [cap |-> Len(allSnesDomains),
                elems |-> [i \in 1..Len(allSnesDomains) |-> platformDomain(allSnesDomains[i])]] >>,
   allDomains |-> 1,
   domainByName |-> platformByName(allSnesDomains, 1, <<>>)]

(* allDomains = append(allDomains, d): in place while the array has room,
   into a new array when it is full *)
appendDomain(s, d, growth) ==
  Let(s.heap[s.allDomains], LAMBDA a :
    IF Len(a.elems) < a.cap
    THEN [s EXCEPT !.heap[s.allDomains].elems = Append(a.elems, d)]
    ELSE [s EXCEPT !.heap = Append(s.heap,
                                   [cap |-> growslice(growth, a.cap, Len(a.elems) + 1),
                                    elems |-> Append(a.elems, d)]),
                   !.allDomains = Len(s.heap) + 1])

(* the body of the loop over config.Domains, for a pointer d already known *)
overrideAt(s, d, domainConf) ==
  [s EXCEPT !.heap[d.arr].elems[d.idx] = overrideDomain(@, domainConf)]

(* one turn of the loop over config.Domains *)
driverDomain(s, domainConf, growth) ==
  Let(ToLower(domainConf.name), LAMBDA nameLower :
    IF nameLower \in DOMAIN s.domainByName
    THEN overrideAt(s, s.domainByName[nameLower], domainConf)
    ELSE Let(appendDomain(s, coreSpecificDomain(domainConf), growth), LAMBDA t :
           Let([arr |-> t.allDomains, idx |-> Len(t.heap[t.allDomains].elems)], LAMBDA d :
             overrideAt([t EXCEPT !.domainByName = mapStore(@, nameLower, d)],
                        d, domainConf))))

RECURSIVE driverDomains(_, _, _, _)
driverDomains(s, domains, i, growth) ==
  IF i > Len(domains) THEN s
  ELSE driverDomains(driverDomain(s, domains[i], growth), domains, i + 1, growth)

(* the package variables before DriverConfig has run *)
Unconfigured == [heap |-> <<>>, allDomains |-> NoArray, domainByName |-> <<>>]

(* DriverConfig, with its three early returns *)
driverConfig(config, growth) ==
  IF ~config.hasDriver \/ ~config.hasSnes THEN Unconfigured
  ELSE IF config.decodeFails THEN allSnesDomainsOf(config.platform)
  ELSE driverDomains(allSnesDomainsOf(config.platform), config.domains, 1, growth)

DriverConfig ==
  /\ pc = "ready"
  /\ ret' = driverConfig(call, peer.growth)
  /\ pc' = "returned"
  /\ UNCHANGED <<call, peer, rx, tx, nreq, client>>

(* the configurations tried *)
PlatformConfs == {[name |-> ConfWRAM, size |-> 4], [name |-> ConfSRAM, size |-> 2]}

DriverDomainConf(name, sizeNil, writeable) ==
  [name |-> name, sizeNil |-> sizeNil, size |-> IF sizeNil THEN 0 ELSE 8,
   readable |-> TRUE, writeable |-> writeable, space |-> <<83>>, start |-> 16]

DriverConfs ==
  {DriverDomainConf(n, TRUE, TRUE) : n \in {ToLower(ConfWRAM), ConfSRAM, <<88>>, <<89>>}}
    \cup {DriverDomainConf(ToLower(ConfWRAM), FALSE, FALSE)}

Configs ==
  {[hasDriver |-> TRUE, hasSnes |-> TRUE, decodeFails |-> FALSE,
    platform |-> p, domains |-> d] :
     p \in SeqsUpTo(PlatformConfs, MaxPlatformDomains),
     d \in SeqsUpTo(DriverConfs, MaxDriverDomains)}
    \cup {[hasDriver |-> f[1], hasSnes |-> f[2], decodeFails |-> f[3],
           platform |-> p, domains |-> <<DriverDomainConf(<<88>>, TRUE, TRUE)>>] :
            f \in {<<FALSE, TRUE, FALSE>>, <<TRUE, FALSE, FALSE>>, <<TRUE, TRUE, TRUE>>},
            p \in SeqsUpTo(PlatformConfs, 1)}

InitConfig ==
  /\ call \in Configs
  /\ peer \in [growth : Growths]
  /\ ret = Unconfigured
  /\ pc = "ready"
  /\ rx = <<>> /\ tx = <<>> /\ nreq = 0
  /\ client = [none |-> TRUE]

NextConfig == DriverConfig

SpecConfig == InitConfig /\ [][NextConfig]_vars

(***************************************************************************)
(* Claims about the reply parser and the single-command handlers.          *)
(***************************************************************************)
Parsed == pc = "returned" /\ call.op = "parseResponse"

(* the reply of a single-command call *)
Reply == peer[1]

Sent ==
  /\ pc = "returned"
  /\ call.op \in {"SendCommandWaitReply", "SendCommandBinaryWaitReply"}
  /\ call.conn = "up"

(* C2: when the first byte of a reply is neither 0x00 nor '\n', the parser
   reports an error of the fatal class. *)
C2_FramingErrorIsFatal ==
  (Parsed /\ Reply # <<>> /\ Reply[1] \notin {NUL, LF}) => ret.err.kind = "fatal"

(* C3: when the first item of an ASCII reply has an error key,
   SendCommandWaitReply and SendCommandBinaryWaitReply return an error that
   carries the error text and is of the non-fatal class. *)
C3_ErrorReplyIsNonFatal ==
  (Sent /\ HasErrorReply(parseResponse(Reply))) =>
     /\ ret.err.kind = "nonfatal"
     /\ \E n \in 0..Len(ret.err.text) :
          Drop(ret.err.text, n) = parseResponse(Reply).ascii[1][KeyError]

(* The lines of an ASCII reply s, stated on the positions of its line feeds:
   line k lies between the (k-1)-th and the k-th line feed behind the first
   byte, without its trailing carriage return; bytes behind the last line feed
   make a last line. *)
LineFeeds(s) == {i \in 2..Len(s) : s[i] = LF}

NthLineFeed(s, k) ==
  IF k = 0 THEN 1
  ELSE IF k > Cardinality(LineFeeds(s)) THEN Len(s) + 1
  ELSE CHOOSE i \in LineFeeds(s) : Cardinality({j \in LineFeeds(s) : j <= i}) = k

LineCount(s) ==
  LET n == Cardinality(LineFeeds(s))
  IN IF NthLineFeed(s, n) < Len(s) THEN n + 1 ELSE n

LineAt(s, k) ==
  LET raw == SubSeq(s, NthLineFeed(s, k - 1) + 1, NthLineFeed(s, k) - 1)
  IN IF raw # <<>> /\ raw[Len(raw)] = CR THEN SubSeq(raw, 1, Len(raw) - 1) ELSE raw

(* the lines in front of the first empty line *)
ExpectedLines(s) ==
  LET n == LineCount(s)
      empty == {k \in 1..n : LineAt(s, k) = <<>>}
      stop == IF empty = {} THEN n + 1
              ELSE CHOOSE k \in empty : \A j \in empty : k <= j
  IN [k \in 1..(stop - 1) |-> LineAt(s, k)]

KeyOf(l) ==
  LET n == CHOOSE n \in 0..Len(l) :
             /\ \A i \in 1..n : l[i] # COLON
             /\ (n = Len(l) \/ l[n + 1] = COLON)
  IN SubSeq(l, 1, n)

ValueOf(l) ==
  IF Len(KeyOf(l)) = Len(l) THEN <<>> ELSE Drop(l, Len(KeyOf(l)) + 1)

RECURSIVE KeysBefore(_, _)
KeysBefore(items, k) ==
  IF k <= 1 THEN 0
  ELSE KeysBefore(items, k - 1) + Cardinality(DOMAIN items[k - 1])

(* items holds the lines in order: item k is made of the next lines, as many
   as it has keys, one key per line; no item is empty; and the line that
   opens item k+1 has a key that item k holds already *)
IsGrouping(lines, items) ==
  /\ KeysBefore(items, Len(items) + 1) = Len(lines)
  /\ \A k \in 1..Len(items) :
       LET first == KeysBefore(items, k) + 1
           last == KeysBefore(items, k + 1)
       IN /\ first <= last
          /\ DOMAIN items[k] = {KeyOf(lines[i]) : i \in first..last}
          /\ \A i \in first..last : items[k][KeyOf(lines[i])] = ValueOf(lines[i])
          /\ k < Len(items) => KeyOf(lines[last + 1]) \in DOMAIN items[k]

(* C4: for an ASCII reply the parser reads the lines up to the first empty
   line and yields, without an error, the ordered list of items: each line
   split at its first ':' into key and value, a line whose key the current
   item holds already closing that item and opening the next, the last
   non-empty item appended at the end. *)
C4_AsciiReplyItems ==
  (Parsed /\ Reply # <<>> /\ Reply[1] = LF) =>
     /\ ret.err = NoError
     /\ ret.binNil
     /\ ~ret.asciiNil
     /\ IsGrouping(ExpectedLines(Reply), ret.ascii)

C4_Witness ==
  /\ Parsed
  /\ Reply # <<>>
  /\ Reply[1] = LF
  /\ Len(ret.ascii) >= 2
  /\ Cardinality(DOMAIN ret.ascii[1]) >= 2

(* [{id:1,name:foo},{id:2,name:bar}] *)
TwoItems ==
  << (<<105, 100>> :> <<49>>) @@ (<<110, 97, 109, 101>> :> <<102, 111, 111>>),
     (<<105, 100>> :> <<50>>) @@ (<<110, 97, 109, 101>> :> <<98, 97, 114>>) >>

(* C5, as stated: given the bytes "id:1\nname:foo\n\nid:2\nname:bar\n\n" the
   parser yields the two items [{id:1,name:foo},{id:2,name:bar}]. *)
C5_LiteralReplyTwoItems ==
  (Parsed /\ Reply = LiteralReply) => (ret.err = NoError /\ ret.ascii = TwoItems)

(* C5, amended: given the bytes "\nid:1\nname:foo\nid:2\nname:bar\n\n" (the
   leading '\n' of an ASCII reply, the repeated key id opening the second
   item, one empty line at the end) the parser yields the two items
   [{id:1,name:foo},{id:2,name:bar}]; the bytes of the claim as stated start
   with 'i' and are refused with an error and no item. *)
C5_FramedReplyTwoItems ==
  /\ (Parsed /\ Reply = FramedReply) =>
        (ret.err = NoError /\ ~ret.asciiNil /\ ret.ascii = TwoItems /\ ret.binNil)
  /\ (Parsed /\ Reply = LiteralReply) =>
        (ret.err.kind # "nil" /\ ret.asciiNil /\ ret.ascii = <<>>)

C5_Witness == Parsed /\ Reply = FramedReply /\ Len(ret.ascii) = 2

(* the length a binary reply declares in its bytes 2..5 *)
DeclaredLength(s) == ((s[2] * 256 + s[3]) * 256 + s[4]) * 256 + s[5]

(* C6: for a binary reply the parser reads the big-endian length N and then
   exactly N bytes, which it returns as the binary result with no ASCII
   result, leaving what follows unread; a stream that ends before 5+N bytes
   is a fatal error. *)
C6_BinaryReply ==
  (Parsed /\ Reply # <<>> /\ Reply[1] = NUL) =>
     IF Len(Reply) >= 5 /\ Len(Reply) >= 5 + DeclaredLength(Reply)
     THEN /\ ret.err = NoError
          /\ ~ret.binNil
          /\ ret.bin = [i \in 1..DeclaredLength(Reply) |-> Reply[5 + i]]
          /\ ret.asciiNil
          /\ rx = Drop(Reply, 5 + DeclaredLength(Reply))
          /\ (Reply = BinABCD => ret.bin = <<65, 66, 67, 68>>)
     ELSE ret.err.kind = "fatal"

C6_Witness ==
  /\ Parsed
  /\ Reply # <<>>
  /\ Reply[1] = NUL
  /\ ret.err = NoError
  /\ Len(ret.bin) >= 2
  /\ rx # <<>>

(***************************************************************************)
(* Claims about the grouped reads.                                         *)
(***************************************************************************)
(* where the byte b is first in s, behind the end of s when it is nowhere *)
FirstAt(s, b) ==
  CHOOSE i \in 1..(Len(s) + 1) : (i = Len(s) + 1 \/ s[i] = b) /\ \A j \in 1..(i - 1) : s[j] # b

(* the fields that the byte b separates in s *)
RECURSIVE Fields(_, _)
Fields(s, b) ==
  LET i == FirstAt(s, b)
  IN IF i > Len(s) THEN <<s>> ELSE <<SubSeq(s, 1, i - 1)>> \o Fields(Drop(s, i), b)

(* the number a field "$<hex digits>" stands for, -1 when it is none *)
HexDigitValue(b) ==
  IF b >= 48 /\ b <= 57 THEN b - 48 ELSE IF b >= 97 /\ b <= 102 THEN b - 87 ELSE -1

RECURSIVE HexValue(_)
HexValue(ds) ==
  IF Len(ds) = 1 THEN HexDigitValue(ds[1])
  ELSE HexValue(SubSeq(ds, 1, Len(ds) - 1)) * 16 + HexDigitValue(ds[Len(ds)])

DollarNumber(f) ==
  IF Len(f) < 2 \/ f[1] # 36 \/ \E i \in 2..Len(f) : HexDigitValue(f[i]) < 0 THEN -1
  ELSE HexValue(Tail(f))

(* the numbers a command line lists behind its name *)
ListedNumbers(line) ==
  LET fs == Fields(line, 59) IN [k \in 1..(Len(fs) - 1) |-> DollarNumber(fs[k + 1])]

ReadReturned == pc = "returned" /\ call.op = "MultiReadMemory"

(* the memory types of requests, request by request *)
TypesOf(reqs) == [j \in 1..Len(reqs) |-> MemoryTypeFor(reqs[j].requestAddress).memType]

(* the group of every request: its memory type is the g-th distinct one in
   request order *)
GroupsOf(types) ==
  [j \in 1..Len(types) |-> Cardinality({types[i] : i \in 1..FirstAt(types, types[j])})]

GroupCount(types) == Cardinality({types[j] : j \in 1..Len(types)})

(* the requests of group g in request order *)
MembersOf(groups, g) == SelectSeq([j \in 1..Len(groups) |-> j], LAMBDA j : groups[j] = g)

(* the sizes of the requests of j's group in front of request j *)
RECURSIVE SizesBeforeIn(_, _, _, _)
SizesBeforeIn(sizes, groups, j, i) ==
  IF i >= j THEN 0
  ELSE (IF groups[i] = groups[j] THEN sizes[i] ELSE 0) + SizesBeforeIn(sizes, groups, j, i + 1)

ReadSizes == [j \in 1..Len(call.reads) |-> call.reads[j].size]

TypeOfRead(j) == TypesOf(call.reads)[j]

GroupOfRead(j) == GroupsOf(TypesOf(call.reads))[j]

SizesBefore(j) == SizesBeforeIn(ReadSizes, GroupsOf(TypesOf(call.reads)), j, 1)

(* the bytes of a well-formed binary reply *)
PayloadOf(reply) == Drop(reply, 5)

IsBinary(reply) == reply # <<>> /\ reply[1] = NUL

(* the offsets and sizes of these requests, one after the other *)
ExpectedListing(reqs, sizes, members) ==
  [n \in 1..(2 * Len(members)) |->
     IF n % 2 = 1 THEN MemoryTypeFor(reqs[members[(n + 1) \div 2]].requestAddress).offset
     ELSE sizes[members[n \div 2]]]

AllRepliesFull ==
  /\ Len(peer) = GroupCount(TypesOf(call.reads))
  /\ \A j \in 1..Len(call.reads) :
       /\ IsBinary(peer[GroupOfRead(j)])
       /\ Len(PayloadOf(peer[GroupOfRead(j)])) >= SizesBefore(j) + call.reads[j].size

(* C8: MultiReadMemory writes one CORE_READ line per memory type of the reads,
   in order of first appearance, listing the type's offsets and sizes in
   request order; when every group is answered in full it reads every reply
   and returns, read by read in request order, the request's address and the
   bytes of its group's reply that start at the sum of the sizes of the
   group's earlier reads. *)
C8_GroupedRead ==
  (ReadReturned /\ call.conn = "up") =>
    LET types == TypesOf(call.reads)
        groups == GroupsOf(types)
        lines == Fields(tx, LF)
    IN /\ Len(lines) = GroupCount(types) + 1
       /\ lines[Len(lines)] = <<>>
       /\ \A j \in 1..Len(call.reads) :
            /\ Fields(lines[groups[j]], 59)[1] = CoreRead \o types[j]
            /\ ListedNumbers(lines[groups[j]]) =
                 ExpectedListing(call.reads, ReadSizes, MembersOf(groups, groups[j]))
       /\ AllRepliesFull =>
            /\ ret.err.kind = "nil"
            /\ rx = <<>>
            /\ nreq = GroupCount(types)
            /\ Len(ret.mrsp) = Len(call.reads)
            /\ \A j \in 1..Len(call.reads) :
                 /\ ret.mrsp[j].requestAddress = call.reads[j].requestAddress
                 /\ ret.mrsp[j].data =
                      SubSeq(PayloadOf(peer[groups[j]]),
                             SizesBeforeIn(ReadSizes, groups, j, 1) + 1,
                             SizesBeforeIn(ReadSizes, groups, j, 1) + call.reads[j].size)

(* three reads of two memory types, the types interleaved, all answered *)
C8_Witness ==
  /\ ReadReturned
  /\ call.conn = "up"
  /\ Len(call.reads) = 3
  /\ TypeOfRead(1) = TypeOfRead(3)
  /\ TypeOfRead(1) # TypeOfRead(2)
  /\ call.reads[1].size > 0
  /\ call.reads[3].size > 0
  /\ call.reads[1].requestAddress # call.reads[3].requestAddress
  /\ AllRepliesFull
  /\ ret.err.kind = "nil"


DomainReadReturned == pc = "returned" /\ call.op = "MultiDomainRead"

RECURSIVE DomainSizesBefore(_, _)
DomainSizesBefore(reads, j) ==
  IF j <= 1 THEN 0 ELSE DomainSizesBefore(reads, j - 1) + reads[j - 1].size

(* the buffer of a region of this size that lies behind before bytes of the
   payload: the payload's bytes as far as they reach, then zeros *)
RegionOf(payload, before, size) ==
  [k \in 1..size |-> IF before + k <= Len(payload) THEN payload[before + k] ELSE 0]

(* every group of the reads is answered in binary, one of them with fewer
   bytes than its reads ask for *)
ShortReadReply ==
  /\ ReadReturned
  /\ call.conn = "up"
  /\ Len(peer) = GroupCount(TypesOf(call.reads))
  /\ \A g \in 1..Len(peer) : IsBinary(peer[g])
  /\ \E j \in 1..Len(call.reads) :
       Len(PayloadOf(peer[GroupOfRead(j)])) < SizesBefore(j) + call.reads[j].size

(* the client knows the core, every request names a domain of the core and is
   answered in binary, one of them with fewer bytes than its reads ask for *)
ShortDomainReply ==
  /\ DomainReadReturned
  /\ call.conn = "up"
  /\ ~client.currentDomainsNil
  /\ Len(peer) = Len(call.requests)
  /\ \A i \in 1..Len(call.requests) :
       /\ IsBinary(peer[i])
       /\ cleanLower(call.requests[i].name)
            \in DOMAIN coresConfig[client.currentCore].sniToCoreMapping
  /\ \E i \in 1..Len(call.requests) :
       Len(PayloadOf(peer[i])) < DomainSizesBefore(call.requests[i].reads,
                                                    Len(call.requests[i].reads) + 1)

(* C9: when a CORE_READ reply is shorter than the sizes asked for, the call
   succeeds, every buffer has the size asked for, holds the reply's bytes that
   fall into its range behind the sizes of the earlier regions, and is zero
   behind them; in MultiReadMemory and in MultiDomainRead alike. *)
C9_ShortReply ==
  /\ ShortReadReply =>
       /\ ret.err.kind = "nil"
       /\ Len(ret.mrsp) = Len(call.reads)
       /\ \A j \in 1..Len(call.reads) :
            ret.mrsp[j].data =
              RegionOf(PayloadOf(peer[GroupOfRead(j)]), SizesBefore(j), call.reads[j].size)
  /\ ShortDomainReply =>
       /\ ret.err.kind = "nil"
       /\ ~ret.rspNil
       /\ Len(ret.rsp) = Len(call.requests)
       /\ \A i \in 1..Len(call.requests) :
            /\ Len(ret.rsp[i].reads) = Len(call.requests[i].reads)
            /\ \A j \in 1..Len(call.requests[i].reads) :
                 ret.rsp[i].reads[j].data =
                   RegionOf(PayloadOf(peer[i]),
                            DomainSizesBefore(call.requests[i].reads, j),
                            call.requests[i].reads[j].size)

(* a reply that ends inside a region: some of its buffer is filled, the rest
   is zero, and a later region of the group gets nothing *)
C9_Witness ==
  /\ ShortReadReply
  /\ \E j \in 1..Len(call.reads) :
       /\ ret.mrsp[j].data # <<>>
       /\ ret.mrsp[j].data[1] # 0
       /\ ret.mrsp[j].data[Len(ret.mrsp[j].data)] = 0
       /\ \E n \in (j + 1)..Len(call.reads) :
            /\ TypeOfRead(n) = TypeOfRead(j)
            /\ call.reads[n].size > 0

(* the same in a read by domain *)
C9_WitnessDomain ==
  /\ ShortDomainReply
  /\ \E i \in 1..Len(call.requests) :
       /\ Len(call.requests[i].reads) = 2
       /\ ret.rsp[i].reads[2].data # <<>>
       /\ ret.rsp[i].reads[2].data[1] # 0
       /\ ret.rsp[i].reads[2].data[Len(ret.rsp[i].reads[2].data)] = 0


(***************************************************************************)
(* Claims about the bytes written.                                         *)
(***************************************************************************)
BadFrame == [line |-> <<>>, declared |-> -1, payload |-> <<>>]

(* the bytes written, read the way a peer reads requests with a binary
   argument: a line up to its line feed, a zero byte, a length of four bytes,
   the most significant first, and as many bytes as the length says *)
RECURSIVE Frames(_)
Frames(s) ==
  IF s = <<>> THEN <<>>
  ELSE
    LET lf == FirstAt(s, LF)
        declared == s[lf + 2] * 16777216 + s[lf + 3] * 65536 + s[lf + 4] * 256 + s[lf + 5]
    IN IF Len(s) < lf + 5 THEN <<BadFrame>>
       ELSE IF s[lf + 1] # NUL \/ Len(s) < lf + 5 + declared THEN <<BadFrame>>
       ELSE << [line |-> SubSeq(s, 1, lf - 1), declared |-> declared,
                payload |-> SubSeq(s, lf + 6, lf + 5 + declared)] >>
              \o Frames(Drop(s, lf + 5 + declared))

RECURSIVE Sum(_)
Sum(ns) == IF ns = <<>> THEN 0 ELSE Head(ns) + Sum(Tail(ns))

(* of the numbers a line lists, the sizes are every second one *)
ListedSizes(ns) == [k \in 1..(Len(ns) \div 2) |-> ns[2 * k]]

ListedOffsets(ns) == [k \in 1..(Len(ns) \div 2) |-> ns[2 * k - 1]]

WriteReturned == pc = "returned" /\ call.op = "MultiWriteMemory"

TypeOfWrite(j) == TypesOf(call.writes)[j]

(* a frame is the bCORE_WRITE of these regions under this name *)
IsWriteOf(frame, name, offsets, datas) ==
  /\ Fields(frame.line, 59)[1] = CoreWrite \o name
  /\ ListedOffsets(ListedNumbers(frame.line)) = offsets
  /\ ListedSizes(ListedNumbers(frame.line)) = [k \in 1..Len(datas) |-> Len(datas[k])]
  /\ Len(ListedNumbers(frame.line)) = 2 * Len(datas)
  /\ frame.declared = Sum(ListedSizes(ListedNumbers(frame.line)))
  /\ frame.payload = Concat(datas)

DomainWriteReturned == pc = "returned" /\ call.op = "MultiDomainWrite"

DiscoveryCommands == CoreCurrentInfo \o <<LF>> \o CoreMemories \o <<LF>>

(* what a client that knows the core wrote after it had asked for the core *)
AfterDiscovery ==
  IF Len(tx) >= Len(DiscoveryCommands)
       /\ SubSeq(tx, 1, Len(DiscoveryCommands)) = DiscoveryCommands
  THEN Drop(tx, Len(DiscoveryCommands)) ELSE tx

KnownName(i) ==
  cleanLower(call.requests[i].name) \in DOMAIN coresConfig[client.currentCore].sniToCoreMapping

(* the requests in front of the first one that names no domain of the core *)
RequestsWritten ==
  Cardinality({i \in 1..Len(call.requests) : \A k \in 1..i : KnownName(k)})

(* C7: a text request is written as the command line and a line feed; a
   request with a binary argument as 'b', the command line, a line feed, a
   zero byte, the argument's length in four bytes, the most significant first,
   and the argument; every bCORE_WRITE of MultiWriteMemory and of
   MultiDomainWrite declares the sum of the sizes it lists and carries the
   bytes of its regions in request order. *)
C7_RequestFraming ==
  /\ (Sent /\ call.conn = "up" /\ call.op = "SendCommandWaitReply") =>
       tx = call.cmd \o <<LF>>
  /\ (Sent /\ call.conn = "up" /\ call.op = "SendCommandBinaryWaitReply") =>
       /\ tx[1] = 98
       /\ Frames(Tail(tx)) =
            << [line |-> call.cmd, declared |-> Len(call.arg), payload |-> call.arg] >>
  /\ (WriteReturned /\ call.conn = "up") =>
       LET types == TypesOf(call.writes)
           groups == GroupsOf(types)
           frames == Frames(tx)
       IN /\ Len(frames) = GroupCount(types)
          /\ \A j \in 1..Len(call.writes) :
               LET members == MembersOf(groups, groups[j])
               IN IsWriteOf(frames[groups[j]], types[j],
                            [k \in 1..Len(members) |->
                               MemoryTypeFor(call.writes[members[k]].requestAddress).offset],
                            [k \in 1..Len(members) |-> call.writes[members[k]].data])
  /\ (DomainWriteReturned /\ call.conn = "up" /\ ~client.currentDomainsNil) =>
       LET frames == Frames(AfterDiscovery)
       IN /\ Len(frames) = RequestsWritten
          /\ \A i \in 1..Len(frames) :
               IsWriteOf(frames[i],
                         coresConfig[client.currentCore].sniToCoreMapping[
                           cleanLower(call.requests[i].name)],
                         [k \in 1..Len(call.requests[i].writes) |->
                            call.requests[i].writes[k].offset],
                         [k \in 1..Len(call.requests[i].writes) |->
                            call.requests[i].writes[k].data])

(* two writes of one memory type around a write of another: one frame holds
   the bytes of the first and the third *)
C7_Witness ==
  /\ WriteReturned
  /\ call.conn = "up"
  /\ Len(call.writes) = 3
  /\ TypeOfWrite(1) = TypeOfWrite(3)
  /\ TypeOfWrite(1) # TypeOfWrite(2)
  /\ \A j \in 1..3 : call.writes[j].data # <<>>
  /\ call.writes[1].data # call.writes[3].data
  /\ Len(Frames(tx)) = 2
  /\ Frames(tx)[1].payload = call.writes[1].data \o call.writes[3].data

(***************************************************************************)
(* Claims about the domain range check of the FX Pak Pro.                  *)
(***************************************************************************)
DeviceReturned ==
  pc = "returned" /\ call.op \in {"Device.MultiDomainRead", "Device.MultiDomainWrite"}

(* the sum of two uint32 is 2^32 or more *)
Carries(a, b) == a.hi + b.hi + (a.lo + b.lo) \div Half >= Half

(* address >= size or address + length > size, the sum being the sum of the
   two numbers and not what 32 bits keep of it *)
OutOfRange(address, length, size) ==
  \/ Ge32(address, size)
  \/ Carries(address, length)
  \/ Gt32(Add32(address, length), size)

KnownGroups == {i \in 1..Len(call.requests) : domainOf(call.requests[i].domain) # 0}

EntryOutOfRange(i, j) ==
  OutOfRange(call.requests[i].entries[j].address,
             sizeOf(call.op, call.requests[i].entries[j]),
             uint32(domainDescs[domainOf(call.requests[i].domain)].size))

SomeOutOfRange ==
  \E i \in KnownGroups : \E j \in 1..Len(call.requests[i].entries) : EntryOutOfRange(i, j)

(* C10: Device.MultiDomainRead and Device.MultiDomainWrite of the FX Pak Pro
   return InvalidArgument without calling MultiReadMemory or MultiWriteMemory
   when an entry of any group, at any place, has address >= size of its domain
   or address + length > size; when every group names a domain and every
   entry is in range (the last byte of a domain included) the request is
   accepted and the memory operation is called. *)
C10_DomainRangeCheck ==
  DeviceReturned =>
    /\ SomeOutOfRange => (ret.err.kind = "InvalidArgument" /\ ~ret.invoked)
    /\ (KnownGroups = 1..Len(call.requests) /\ ~SomeOutOfRange) => ret.invoked

(***************************************************************************)
(* Claims about callers that share one client.                             *)
(***************************************************************************)
(* C1: with any number of callers, a handler holds the lock of the client
   whenever it writes or reads and as long as a command it wrote has its
   reply unread, and every reply a handler takes from the stream is the reply
   to a command that it wrote: the i-th reply goes to the writer of the i-th
   command. *)
C1_RepliesToTheirWriters ==
  \A c \in Callers :
    /\ pc[c] \in {"write", "read", "unlock"} => client.lock = c
    /\ ret[c].wrote \ ret[c].took # {} => client.lock = c
    /\ ret[c].took \subseteq ret[c].wrote

(***************************************************************************)
(* Claims about the domain handlers of the NWA client.                     *)
(***************************************************************************)
DomainCallReturned == pc = "returned" /\ call.op \in DomainOps

(* the entries of request i, and where entry j of it ends *)
EntriesOf(i) ==
  IF call.op = "MultiDomainRead" THEN call.requests[i].reads ELSE call.requests[i].writes

EndOf(entry) ==
  entry.offset + (IF call.op = "MultiDomainRead" THEN entry.size ELSE Len(entry.data))

(* an entry of a request ends behind the size discovered for its domain *)
BeyondDomain ==
  \E i \in 1..Len(call.requests) : \E d \in 1..Len(client.currentDomains) :
    /\ cleanLower(client.currentDomains[d].name) = cleanLower(call.requests[i].name)
    /\ \E j \in 1..Len(EntriesOf(i)) : EndOf(EntriesOf(i)[j]) > client.currentDomains[d].size

(* C11: MultiDomainRead and MultiDomainWrite of the NWA client fail, and write
   no CORE_READ and no bCORE_WRITE, when an entry has offset + size greater
   than the size discovered for its domain. *)
C11_DomainRangeValidated ==
  (DomainCallReturned /\ ~client.currentDomainsNil /\ BeyondDomain) =>
     (ret.err.kind # "nil" /\ AfterDiscovery = <<>>)

(***************************************************************************)
(* Claims about the discovery of the core and its memory domains.          *)
(***************************************************************************)
SessionReturned == pc = "returned" /\ call.n >= 1

(* the bytes this call wrote *)
Written == Drop(tx, call.sent)

Occurs(sub, s) == \E k \in 1..(Len(s) - Len(sub) + 1) : SubSeq(s, k, k + Len(sub) - 1) = sub

StartsWith(s, sub) == Len(s) >= Len(sub) /\ SubSeq(s, 1, Len(sub)) = sub

AsksCore == CoreCurrentInfo \o <<LF>>

AsksMemories == CoreMemories \o <<LF>>

(* the answers that make a discovery succeed under coresConfig *)
GoodDiscovery(replies) ==
  StartsWith(replies, <<CoreInfoReply, MemoriesReply>>)
    \/ StartsWith(replies, <<CoreInfoReply, MemoriesWramOnly>>)
    \/ StartsWith(replies, <<CoreInfoReply, MemoriesTwice>>)

LastDiscoverySucceeded ==
  call.last.discovers /\ ~call.before.platConfigNil /\ GoodDiscovery(call.last.replies)

LastDiscoveryFailed ==
  call.last.discovers /\ ~GoodDiscovery(call.last.replies)

(* C12: a MultiDomainRead or MultiDomainWrite that follows a successful
   discovery, or finds the domains cached, writes no CORE_CURRENT_INFO and no
   CORE_MEMORIES; one that is the first call of the client or follows a failed
   discovery starts with CORE_CURRENT_INFO. *)
C12_DiscoveryOnce ==
  (SessionReturned /\ call.op \in DomainOps /\ ~call.before.platConfigNil) =>
    /\ (LastDiscoverySucceeded \/ ~call.before.currentDomainsNil) =>
         (~Occurs(AsksCore, Written) /\ ~Occurs(AsksMemories, Written))
    /\ (call.last.op = "none" \/ LastDiscoveryFailed) => StartsWith(Written, AsksCore)

(* a read that succeeds behind a call that discovered the domains *)
C12_Witness ==
  /\ SessionReturned
  /\ call.op = "MultiDomainRead"
  /\ LastDiscoverySucceeded
  /\ ret.err.kind = "nil"
  /\ StartsWith(Written, CoreRead)

(* C13: every MemoryDomains on a configured client writes CORE_CURRENT_INFO
   again, also right behind a successful discovery, and when it fails none of
   the current core, the current platform and the current domains of the
   earlier discovery is left in the client. *)
C13_MemoryDomainsInvalidates ==
  (SessionReturned /\ call.op = "MemoryDomains" /\ ~call.before.platConfigNil) =>
    /\ StartsWith(Written, AsksCore)
    /\ ret.err.kind # "nil" =>
         (client.currentCore = 0 /\ client.currentPlatform = <<>> /\ client.currentDomainsNil)

(* what the emulator had ready for this call *)
ReadyReplies == Drop(peer, call.asked)

ConsecutiveMemoryDomains ==
  /\ SessionReturned
  /\ call.op = "MemoryDomains" /\ call.last.op = "MemoryDomains"
  /\ ret.err.kind = "nil" /\ call.last.ret.err.kind = "nil"

(* C14: two MemoryDomains calls in a row that the emulator answers with the
   same core info and the same CORE_MEMORIES records return the same core name
   and equal lists of domains: names, order, size, exposed, core-specific,
   readable and writeable. *)
C14_MemoryDomainsIdempotent ==
  (ConsecutiveMemoryDomains /\ ReadyReplies = call.last.replies) =>
    (~ret.rspNil /\ ret.rsp = call.last.ret.rsp)

(* two calls answered alike that return a list in which WRAM is exposed *)
C14_Witness ==
  /\ ConsecutiveMemoryDomains
  /\ ReadyReplies = call.last.replies
  /\ \E i \in 1..Len(ret.rsp.domains) :
       ret.rsp.domains[i].name = WRAM /\ ret.rsp.domains[i].isExposed

(* answers that make the discovery fail on the configuration: no core
   configuration matches, the platform of the matching one is missing, a
   memory has no entry in coreToSNIMapping *)
ConfigurationFails(replies) ==
  \/ StartsWith(replies, <<CoreInfoUnknown>>)
  \/ StartsWith(replies, <<CoreInfoOtherVersion>>)
  \/ StartsWith(replies, <<CoreInfoReply, MemoriesUnmapped>>)

ConfigurationFailure ==
  SessionReturned /\ call.discovers /\ ~call.before.platConfigNil /\ ConfigurationFails(ReadyReplies)

RetriesDiscovery ==
  (SessionReturned /\ call.last.discovers /\ ~call.before.platConfigNil
     /\ ConfigurationFails(call.last.replies)) => StartsWith(Written, AsksCore)

(* C15: a discovery that fails on the configuration returns its error from
   that call, the error is not of the class that has the session torn down,
   no domains are cached, and the next call that needs the domains runs the
   discovery again. *)
C15_ConfigurationFailureKeepsSession ==
  /\ ConfigurationFailure =>
       (ret.err.kind \notin {"nil", "fatal"} /\ client.currentDomainsNil)
  /\ RetriesDiscovery

(* the reply to CORE_CURRENT_INFO of this call, as fields *)
CoreInfo == parseResponse(ReadyReplies[1]).ascii

InfoField(key) == clean(MapValue(CoreInfo[1], key))

(* the core configurations that match the reply, by the regular expressions
   each of them has *)
Matching ==
  {i \in 1..Len(coresConfig) :
     /\ Match(coresConfig[i].coreNameRegex, InfoField(KeyName))
     /\ coresConfig[i].coreVersionRegex.nil \/ Match(coresConfig[i].coreVersionRegex, InfoField(KeyVersion))
     /\ coresConfig[i].corePlatformRegex.nil
          \/ Match(coresConfig[i].corePlatformRegex, InfoField(KeyPlatform))}

CoreInfoAnswered ==
  /\ SessionReturned /\ call.discovers /\ ~call.before.platConfigNil
  /\ Len(ReadyReplies) >= 1 /\ ReadyReplies[1] \in {CoreInfoReply, CoreInfoOtherVersion, CoreInfoUnknown}

(* C16: the discovery takes the first core configuration, in the order of the
   configuration, whose name expression matches the trimmed core name and whose
   version and platform expressions, where it has them, match too: a discovery
   that succeeds has cached that one and no later one, one that finds the
   platform of that one missing fails, and when none matches the discovery
   fails and CORE_MEMORIES is not written. *)
C16_FirstMatchingCore ==
  CoreInfoAnswered =>
    /\ Matching = {} => (ret.err.kind # "nil" /\ ~Occurs(AsksMemories, Written))
    /\ Matching # {} =>
         LET first == CHOOSE i \in Matching : \A k \in Matching : i <= k
         IN /\ ret.err.kind = "nil" => client.currentCore = first
            /\ coresConfig[first].platform \notin DOMAIN currentPlatConfig.platformsByName =>
                 (ret.err.kind # "nil" /\ ~Occurs(AsksMemories, Written))
            /\ coresConfig[first].platform \in DOMAIN currentPlatConfig.platformsByName =>
                 Occurs(AsksMemories, Written)

(* a discovery answered with a core that two configurations match *)
C16_Witness ==
  /\ CoreInfoAnswered
  /\ Cardinality(Matching) = 2
  /\ ret.err.kind = "nil" /\ client.currentCore = 1

(* a call whose discovery was answered by the first core configuration's
   core and a CORE_MEMORIES reply *)
MemoriesAnswered ==
  /\ SessionReturned /\ call.discovers /\ ~call.before.platConfigNil
  /\ Len(ReadyReplies) >= 2 /\ ReadyReplies[1] = CoreInfoReply
  /\ ReadyReplies[2] \in {MemoriesReply, MemoriesWramOnly, MemoriesTwice, MemoriesUnmapped}

Records == parseResponse(ReadyReplies[2]).ascii

RecordName(r) == cleanLower(MapValue(r, KeyName))

RecordSize(r) == ParseUint(cleanLower(MapValue(r, KeySize)))

RecordAccess(r) == cleanLower(MapValue(r, KeyAccess))

Mapped(r) == RecordName(r) \in DOMAIN coresConfig[1].coreToSNIMapping

(* the record is about the domain *)
RecordOf(r, d) == Mapped(r) /\ cleanLower(coresConfig[1].coreToSNIMapping[RecordName(r)]) = cleanLower(d.name)

AllMapped == \A k \in 1..Len(Records) : Mapped(Records[k])

RecordsOf(d) == {k \in 1..Len(Records) : RecordOf(Records[k], d)}

PlatformDomainsListed ==
  LET confs == currentPlatConfig.platformsByName[Snes].domains
  IN /\ Len(client.currentDomains) >= Len(confs)
     /\ \A i \in 1..Len(confs) : client.currentDomains[i].name = confs[i].name

Unreported(d) == RecordsOf(d) = {} => (~d.isExposed /\ ~d.isReadable /\ ~d.isWriteable)

UnmappedFails == ~AllMapped => (ret.err.kind # "nil" /\ client.currentDomainsNil)

LastRecordOf(d) == Records[CHOOSE k \in RecordsOf(d) : \A j \in RecordsOf(d) : j <= k]

(* C17: every CORE_MEMORIES record maps its trimmed, lower-cased name through
   coreToSNIMapping to a domain, which becomes exposed, of the size the record
   reports, readable iff the record's access is r or rw and writeable iff it
   is w or rw; platform domains without a record are listed not exposed, not
   readable and not writeable; a name without a mapping fails the discovery. *)
C17_RecordsDecideDomains ==
  MemoriesAnswered =>
    /\ UnmappedFails
    /\ AllMapped =>
         /\ ~client.currentDomainsNil /\ PlatformDomainsListed
         /\ \A k \in 1..Len(Records) :
              \E i \in 1..Len(client.currentDomains) : RecordOf(Records[k], client.currentDomains[i])
         /\ \A i \in 1..Len(client.currentDomains) :
              LET d == client.currentDomains[i]
              IN /\ Unreported(d)
                 /\ RecordsOf(d) # {} =>
                      /\ d.isExposed
                      /\ d.size = RecordSize(LastRecordOf(d))
                      /\ d.isReadable <=> RecordAccess(LastRecordOf(d)) \in {AccessR, AccessRW}
                      /\ d.isWriteable <=> RecordAccess(LastRecordOf(d)) \in {AccessW, AccessRW}

(***************************************************************************)
(* Claims about FetchFields.                                               *)
(***************************************************************************)
FieldsCallReturned == pc = "returned" /\ call.op = "FetchFields"

(* the command a field is derived from, and the key of its value *)
SourceOf(f) ==
  CASE f = "RomFileName" -> GameInfo
    [] f \in {"CoreName", "CoreVersion", "CorePlatform"} -> CoreCurrentInfo
    [] f \in {"DeviceName", "DeviceVersion"} -> EmulatorInfo
    [] f = "DeviceStatus" -> EmulationStatus
    [] OTHER -> <<>>

FieldKey(f) ==
  CASE f = "RomFileName" -> KeyFile
    [] f \in {"CoreName", "DeviceName"} -> KeyName
    [] f \in {"CoreVersion", "DeviceVersion"} -> KeyVersion
    [] f = "CorePlatform" -> KeyPlatform
    [] f = "DeviceStatus" -> KeyState
    [] OTHER -> <<>>

SourceOrder == <<GameInfo, CoreCurrentInfo, EmulatorInfo, EmulationStatus>>

Needed(cmd) == \E i \in 1..Len(call.fields) : SourceOf(call.fields[i]) = cmd

(* the source commands of the requested fields, each once *)
NeededSources == SelectSeq(SourceOrder, Needed)

CommandLines(cmds) == Concat([k \in 1..Len(cmds) |-> cmds[k] \o <<LF>>])

(* the reply to the source command of a field *)
ReplyTo(f) ==
  peer[CHOOSE k \in 1..Len(NeededSources) : NeededSources[k] = SourceOf(f)]

(* C18: FetchFields writes the source commands of the requested fields, each
   once and none besides: GAME_INFO for RomFileName, CORE_CURRENT_INFO for
   CoreName, CoreVersion and CorePlatform, EMULATOR_INFO for DeviceName and
   DeviceVersion, EMULATION_STATUS for DeviceStatus; a call that returns no
   error has written them all and returns one value for each requested field,
   in the order of the request, taken from the reply to the field's source. *)
C18_FieldsFromTheirSources ==
  FieldsCallReturned =>
    /\ \E k \in 0..Len(NeededSources) : tx = CommandLines(SubSeq(NeededSources, 1, k))
    /\ ret.err.kind = "nil" =>
         /\ tx = CommandLines(NeededSources)
         /\ Len(ret.values) = Len(call.fields)
         /\ \A i \in 1..Len(call.fields) :
              ret.values[i] =
                IF SourceOf(call.fields[i]) = <<>> THEN <<>>
                ELSE getFirstValue(parseResponse(ReplyTo(call.fields[i])).ascii, FieldKey(call.fields[i]))

(***************************************************************************)
(* Claims about connecting and closing.                                    *)
(***************************************************************************)
(* the writes and reads that reached a handle *)
Reached == Len(tx) + Len(rx)

LifeStep == call.op \in {"new", "Connect", "Close", "Disconnect", "writeWithDeadline",
                         "readResponse", "WriteWithDeadline", "ReadWithDeadline",
                         "ReadWithDeadlineInto", "WriteThenRead"}

(* C19: closed is terminal: from a client that is closed no operation, Connect
   included, leads to a client that is not closed, and no write or read
   reaches a connection. *)
C19_ClosedIsTerminal ==
  [][(LifeStep /\ client.isClosed) => (client'.isClosed /\ Reached' = Reached)]_vars

(* C20: the handle of a client is closed exactly once: no handle is closed
   twice, close is never called on a nil handle, and when Close or Disconnect
   has returned every handle the client dialed has been closed. *)
C20_HandleClosedOnce ==
  LifeStep =>
    /\ peer.nilCloses = 0
    /\ \A h \in 1..Len(peer.handles) : peer.handles[h].closes <= 1
    /\ call.op \in {"Close", "Disconnect"} =>
         \A h \in 1..Len(peer.handles) : peer.handles[h].closes = 1

(***************************************************************************)
(* Claims about the LS command of the FX Pak Pro.                          *)
(***************************************************************************)
LsCallReturned == pc = "returned" /\ call.op = "listFiles"

NoEntries == ret.filesNil /\ ret.files = <<>>

HeaderArrived == call.send = "ok" /\ Len(peer) >= 1

(* the fields of the header packet, by their places in the packet *)
HeaderMagic == SubSeq(peer[1], 1, 4)

HeaderSize == ((peer[1][253] * 256 + peer[1][254]) * 256 + peer[1][255]) * 256 + peer[1][256]

HeaderOpcode == peer[1][5]

HeaderErrorByte == peer[1][6]

HeaderValid == HeaderMagic = USBA /\ HeaderSize = 1 /\ HeaderOpcode = OpRESPONSE

(* C21: in LS a failed send, a failed receive of the header, a header without
   the USBA magic, with a size other than 1 or with an opcode other than
   RESPONSE each return a fatal error and no entries; a header that is valid
   but for a non-zero error byte returns a non-fatal error and no entries, and
   no data packet is received. *)
C21_LsHeaderErrors ==
  LsCallReturned =>
    /\ (call.send = "fails" \/ peer = <<>>) => (ret.err.kind = "fatal" /\ NoEntries /\ nreq = 0)
    /\ (HeaderArrived /\ ~HeaderValid) => (ret.err.kind = "fatal" /\ NoEntries /\ nreq = 1)
    /\ (HeaderArrived /\ HeaderValid /\ HeaderErrorByte # 0) =>
         (ret.err.kind = "nonfatal" /\ NoEntries /\ nreq = 1)

(* a header with error byte 5 in front of data packets that stay unread *)
C21_Witness ==
  /\ LsCallReturned /\ HeaderArrived /\ HeaderValid
  /\ HeaderErrorByte = 5 /\ Len(peer) = 3
  /\ ret.err.kind = "nonfatal" /\ nreq = 1

DataStage == HeaderArrived /\ HeaderValid /\ HeaderErrorByte = 0

(* walking the records of packet p from place i finds a name without its NUL *)
RECURSIVE Unframed(_, _)
Unframed(p, i) ==
  IF i > PacketSize \/ p[i] \in {EndOfListing, NextPacket} THEN FALSE
  ELSE IF \A j \in (i + 1)..PacketSize : p[j] # 0 THEN TRUE
  ELSE Unframed(p, 1 + CHOOSE j \in (i + 1)..PacketSize :
                         p[j] = 0 /\ \A k \in (i + 1)..(j - 1) : p[k] # 0)

(* C22: a data packet of LS with a record whose name has no NUL inside the
   packet returns an error of the fatal class and no entries. *)
C22_LsFramingIsFatal ==
  (LsCallReturned /\ DataStage /\ nreq >= 2 /\ Unframed(peer[nreq], 1)) =>
    (ret.err.kind = "fatal" /\ NoEntries)

(* the records of packet p from place i on, as they lie in the packet: the
   type byte and the name up to the next NUL *)
RECURSIVE RecordsFrom(_, _)
RecordsFrom(p, i) ==
  IF i > PacketSize \/ p[i] \in {EndOfListing, NextPacket} THEN <<>>
  ELSE IF \A j \in (i + 1)..PacketSize : p[j] # 0 THEN <<>>
  ELSE LET nul == CHOOSE j \in (i + 1)..PacketSize : p[j] = 0 /\ \A k \in (i + 1)..(j - 1) : p[k] # 0
       IN <<[byte |-> p[i], name |-> SubSeq(p, i + 1, nul - 1)]>> \o RecordsFrom(p, nul + 1)

(* the place behind the last record of packet p *)
RECURSIVE BoundaryFrom(_, _)
BoundaryFrom(p, i) ==
  IF i > PacketSize \/ p[i] \in {EndOfListing, NextPacket} THEN i
  ELSE IF \A j \in (i + 1)..PacketSize : p[j] # 0 THEN i
  ELSE BoundaryFrom(p, 1 + CHOOSE j \in (i + 1)..PacketSize :
                             p[j] = 0 /\ \A k \in (i + 1)..(j - 1) : p[k] # 0)

Ending(p) ==
  LET b == BoundaryFrom(p, 1)
  IN IF b > PacketSize THEN "filled"
     ELSE IF p[b] = EndOfListing THEN "end"
     ELSE IF p[b] = NextPacket THEN "more"
     ELSE "unframed"

Continues(p) == Ending(p) \in {"more", "filled"}

(* the packet at which the listing stops: the first data packet that does not
   continue, or the one behind the last when all continue *)
StopAt == CHOOSE k \in 2..(Len(peer) + 1) :
            /\ k <= Len(peer) => ~Continues(peer[k])
            /\ \A j \in 2..(k - 1) : Continues(peer[j])

ArrivedRecords == Concat([k \in 1..(StopAt - 1) |-> RecordsFrom(peer[k + 1], 1)])

(* C23: listFiles returns the entries in the order in which their records
   arrive over the data packets, Directory for type byte 0 and File for 1, the
   name being the bytes up to the next NUL; 0xFF where a record would start
   ends the listing and no packet behind it is received; 2 there drops the rest
   of the packet and goes on with the next packet, and so does a packet that
   its records fill. *)
C23_LsEntriesInOrder ==
  (LsCallReturned /\ DataStage) =>
    /\ nreq = Min(StopAt, Len(peer))
    /\ ret.err.kind = "nil" <=> (StopAt <= Len(peer) /\ Ending(peer[StopAt]) = "end")
    /\ ret.err.kind = "nil" =>
         /\ ~ret.filesNil
         /\ Len(ret.files) = Len(ArrivedRecords)
         /\ \A i \in 1..Len(ret.files) :
              /\ ret.files[i].name = ArrivedRecords[i].name
              /\ ArrivedRecords[i].byte = 0 => ret.files[i].type = "Directory"
              /\ ArrivedRecords[i].byte = 1 => ret.files[i].type = "File"

(* a packet that ends in 2 and one that ends in 0xFF, a third never received *)
C23_Witness ==
  /\ LsCallReturned /\ DataStage
  /\ peer = <<GoodHeader, ListingMore, ListingEnd>>
  /\ ret.err.kind = "nil" /\ nreq = 3
  /\ ret.files = <<DirEntry(<<97>>, "File"), DirEntry(MenuBin, "File"), DirEntry(Games, "Directory")>>

(* the count at bytes 252..255 of the packet sent *)
SentCount == ((tx[253] * 256 + tx[254]) * 256 + tx[255]) * 256 + tx[256]

(* C25: the request of LS is one packet of 512 bytes: bytes 0..3 are USBA,
   byte 4 the LS opcode, byte 5 the FILE space, byte 6 no flags, bytes 252..255
   the big-endian count of the path bytes copied, which lie from byte 256 on
   and are at most 256; nothing is written past the packet. *)
C25_LsRequestPacket ==
  (LsCallReturned /\ call.send = "ok") =>
    /\ Len(tx) = PacketSize
    /\ SubSeq(tx, 1, 4) = USBA
    /\ tx[5] = OpLS /\ tx[6] = SpaceFILE /\ tx[7] = FlagNONE
    /\ SentCount <= PacketSize - PathAt
    /\ SentCount = (IF Len(call.path) < PacketSize - PathAt THEN Len(call.path) ELSE PacketSize - PathAt)
    /\ SubSeq(tx, PathAt + 1, PathAt + SentCount) = SubSeq(call.path, 1, SentCount)

(* a path one byte longer than the room behind byte 256 *)
C25_Witness ==
  /\ LsCallReturned /\ call.send = "ok"
  /\ Len(call.path) = PacketSize - PathAt + 1
  /\ SentCount = PacketSize - PathAt /\ tx[PacketSize] = 97

InExchange(c) == pc[c] \in {"send", "header", "data", "return"}

(* the packets of caller c lie together in the order of the packets *)
Together(c) ==
  \A i, k \in 1..Len(tx) : (i < k /\ tx[i].c = c /\ tx[k].c = c) =>
    \A j \in i..k : tx[j].c = c

LsStep == DOMAIN pc = LsCallers /\ DOMAIN client = {"lock"}

(* C24: a listFiles whose context has it lock takes the lock of the device
   before it sends and gives it back once on every way out, so that it holds
   the lock for the whole exchange and its packets lie together among those of
   the other callers; one whose context has it not lock neither takes nor gives
   back the lock. *)
C24_LsLockDiscipline ==
  LsStep =>
    \A c \in LsCallers :
      /\ InExchange(c) => client.lock = c
      /\ (InExchange(c) /\ call[c].shouldLock) => (ret[c].locks = 1 /\ ret[c].unlocks = 0)
      /\ (pc[c] = "done" /\ call[c].shouldLock) => (ret[c].locks = 1 /\ ret[c].unlocks = 1)
      /\ ~call[c].shouldLock => (ret[c].locks = 0 /\ ret[c].unlocks = 0)
      /\ Together(c)

(* a locked call that came back with a fatal error behind a call of another
   caller, the lock free again *)
C24_Witness ==
  /\ LsStep
  /\ \E c, o \in LsCallers :
       /\ c # o /\ pc[c] = "done" /\ pc[o] = "done"
       /\ call[c].shouldLock /\ ret[c].err = "fatal" /\ ret[c].unlocks = 1
       /\ ret[o].err = "plain"
  /\ client.lock = Free
  /\ Len(tx) >= 4

(***************************************************************************)
(* Claims about the translation of addresses                               *)
(***************************************************************************)
TranslateReturned ==
  /\ pc = "returned"
  /\ "op" \in DOMAIN call /\ call.op = "TranslateAddress"

Crossing ==
  {call.sourceAddress.AddressSpace, call.deviceSpace} = {"SnesABus", "FxPakPro"}

(* C27: TranslateAddress fails with ErrUnknownMapping, and address 0, exactly
   when the source and device spaces are SnesABus and FxPakPro in either
   direction and the mapping is none of LoROM, HiROM, ExHiROM and SA1; when the
   spaces are not those two, it returns the address it was given and no
   error, whatever the mapping. *)
C27_UnknownMappingOnlyWhenCrossing ==
  TranslateReturned =>
    /\ ret.err = "ErrUnknownMapping" <=>
         (Crossing /\ call.sourceAddress.MemoryMapping \notin {"LoROM", "HiROM", "ExHiROM", "SA1"})
    /\ ret.err = "ErrUnknownMapping" => ret.address = 0
    /\ ~Crossing => ret = Translated(call.sourceAddress.Address, "nil")

(* a bus address for a pak device under the Unknown mapping was refused *)
C27_Witness ==
  /\ TranslateReturned
  /\ call.sourceAddress = AddressTuple(8257827, "SnesABus", "Unknown")
  /\ call.deviceSpace = "FxPakPro"
  /\ ret = Translated(0, "ErrUnknownMapping")

(***************************************************************************)
(* Claims about opening the serial port                                    *)
(***************************************************************************)
PortCallReturned ==
  /\ pc = "returned"
  /\ "op" \in DOMAIN call /\ call.op = "openDevice"

(* the listed rates not above the request, in the order of the list *)
RECURSIVE RatesFrom(_, _)
RatesFrom(i, request) ==
  IF i > Len(baudRates) THEN <<>>
  ELSE IF baudRates[i] > request THEN RatesFrom(i + 1, request)
  ELSE <<baudRates[i]>> \o RatesFrom(i + 1, request)

TriedInOrder ==
  LET all == RatesFrom(1, nreq)
  IN  /\ Len(ret.tried) <= Len(all)
      /\ ret.tried = SubSeq(all, 1, Len(ret.tried))
      /\ \A i \in 1..Len(ret.tried) :
           (ret.tried[i] \in peer.working) <=> (i = Len(ret.tried) /\ ret.baud = ret.tried[i])
      /\ (ret.tried # all) => ret.baud # 0

(* C28: openPort tries the listed rates in descending order, leaving out
   those above the request, and stops at the first that opens; for every
   request, one below the smallest listed rate among them, it returns an open
   port with DTR set and no error, or no port and an error, and leaves no port
   open when it returns an error. *)
C28_OpenPortReturnsPortOrError ==
  PortCallReturned =>
    /\ TriedInOrder
    /\ \/ ret.f # NilPort /\ ret.dtr /\ ret.err = "nil" /\ ~ret.panic
       \/ ret.f = NilPort /\ ret.err # "nil" /\ ret.left = 0 /\ ~ret.panic

(* the same for the requests that are not below the smallest listed rate *)
C28_ListedRequests ==
  (PortCallReturned /\ nreq >= baudRates[Len(baudRates)]) =>
    /\ TriedInOrder
    /\ \/ ret.f # NilPort /\ ret.dtr /\ ret.err = "nil" /\ ~ret.panic
       \/ ret.f = NilPort /\ ret.err # "nil" /\ ret.left = 0 /\ ~ret.panic

(* baud=junk: no rate was tried, and SetDTR was called on the nil port *)
C28_NilPortReached ==
  /\ PortCallReturned
  /\ call.baudStr = NotANumber
  /\ ret.tried = <<>> /\ ret.f = NilPort /\ ret.err = "nil" /\ ret.panic

(***************************************************************************)
(* Claims about the replies left in the stream                             *)
(***************************************************************************)
GroupedCallReturned ==
  /\ pc = "returned"
  /\ "op" \in DOMAIN call
  /\ call.op \in {"MultiReadMemory", "MultiWriteMemory", "MultiDomainRead", "MultiDomainWrite"}

KeepsDeviceOpen == ret.err.kind \in {"nonfatal", "plain"}

(* C30: when MultiReadMemory, MultiWriteMemory, MultiDomainRead or
   MultiDomainWrite returns an error that does not close the device, the reply
   to every command it wrote has been read: no byte of a reply is left in the
   stream for the next command to take. *)
C30_NoReplyLeftUnread ==
  (GroupedCallReturned /\ KeepsDeviceOpen) => rx = <<>>

(* a MultiDomainRead of WRAM and then of a name no domain has: CORE_READ for
   WRAM was written, its reply is unread, the error is not fatal *)
C30_ReplyLeftUnread ==
  /\ GroupedCallReturned /\ call.op = "MultiDomainRead"
  /\ Len(call.requests) = 2
  /\ call.requests[1].name = WRAM
  /\ call.requests[2].name = <<98, 111, 103, 117, 115>>
  /\ ret.err.kind = "nonfatal"
  /\ nreq = 1
  /\ rx = peer[1] /\ rx # <<>>

(***************************************************************************)
(* Claims about the bytes a read takes from the reader                     *)
(***************************************************************************)
WriteGroups ==
  IF call.op = "MultiWriteMemory" THEN Len(memTypesOf(call.writes, <<>>))
  ELSE Len(call.requests)

(* a grouped write on a discovered client that wrote all its groups, each of
   them acknowledged by the peer *)
AllGroupsAcked ==
  /\ pc = "returned"
  /\ "op" \in DOMAIN call
  /\ call.op \in {"MultiWriteMemory", "MultiDomainWrite"}
  /\ call.conn = "up"
  /\ call.op = "MultiDomainWrite" => client = DiscoveredClient
  /\ nreq = WriteGroups
  /\ Len(peer) = nreq
  /\ \A k \in 1..Len(peer) : peer[k] = AckReply

(* C31: a readResponse takes from the reader the bytes of one reply and no
   more: the acknowledgements of MultiWriteMemory and MultiDomainWrite that
   arrived behind the one being parsed are there for the next readResponse,
   so that a write whose groups are all acknowledged reads every
   acknowledgement and succeeds. *)
C31_ReadTakesOneReply ==
  AllGroupsAcked => (ret.err.kind = "nil" /\ rx = <<>>)

(* two groups written and both acknowledged, the second acknowledgement gone
   with the first: the second readResponse met the end of the data *)
C31_AckSwallowed ==
  /\ AllGroupsAcked
  /\ call.op = "MultiWriteMemory"
  /\ nreq = 2
  /\ ret.err.kind = "fatal"
  /\ rx = <<>>

(***************************************************************************)
(* Claims about the 32-bit sum of the range check                          *)
(***************************************************************************)
(* address + length, as numbers, is more than the size of the domain *)
EndsBehind(i, j) ==
  LET e == call.requests[i].entries[j]
      size == uint32(domainDescs[domainOf(call.requests[i].domain)].size)
  IN \/ Carries(e.address, sizeOf(call.op, e))
     \/ Gt32(Add32(e.address, sizeOf(call.op, e)), size)

(* C32: the range check of the FX Pak Pro refuses every entry whose address +
   length, taken as numbers without a bound, is more than the size of its
   domain, whatever the 32-bit address and size are: the sum does not pass the
   check by wrapping around 2^32. *)
C32_RangeCheckDoesNotWrap ==
  DeviceReturned =>
    \A i \in KnownGroups : \A j \in 1..Len(call.requests[i].entries) :
      EndsBehind(i, j) => (ret.err.kind = "InvalidArgument" /\ ~ret.invoked)

(* address 1 with size 0xFFFFFFFF went through to MultiReadMemory *)
C32_WrappedSumAccepted ==
  /\ DeviceReturned /\ call.op = "Device.MultiDomainRead"
  /\ ret.invoked
  /\ \E i \in KnownGroups : \E j \in 1..Len(call.requests[i].entries) :
       /\ call.requests[i].entries[j].address = Uint32(0, 1)
       /\ call.requests[i].entries[j].size = MaxUint32
       /\ EndsBehind(i, j)

(***************************************************************************)
(* Claims about concurrent uses of the mapping                             *)
(***************************************************************************)
RaceStep == DOMAIN pc = Callers /\ "currentPlatformNil" \in DOMAIN client

Succeeded(c) == pc[c] = "done" /\ ret[c].err = "nil" /\ ret[c].deref = "core"

(* C33: with MemoryDomains running beside another MemoryDomains or a
   MultiDomainRead on one client, a MemoryDomains that succeeds lists all the
   domains discovered, never none or some of them because of the other call's
   invalidation, and no call uses a core that is not there. *)
C33_CompleteMappingUnderConcurrency ==
  RaceStep =>
    \A c \in Callers :
      /\ (Succeeded(c) /\ call[c].op = "MemoryDomains") => ret[c].rsp = DomainsFound
      /\ ret[c].deref # "nil"

(* a MemoryDomains that succeeded with no domain in its response, another
   MemoryDomains having cleared the list between its discovery and its loop *)
C33_EmptyResponse ==
  /\ RaceStep
  /\ \E c, o \in Callers :
       /\ c # o
       /\ Succeeded(c) /\ call[c].op = "MemoryDomains" /\ call[o].op = "MemoryDomains"
       /\ ret[c].currentDomains = DomainsFound
       /\ ret[c].rsp = <<>>

(***************************************************************************)
(* Claims about the flags of the UDP client                                *)
(***************************************************************************)
UDPStep == LifeStep /\ "kind" \in DOMAIN client /\ client.kind = "udp"

(* C34: after any sequence of Connect, Close, Disconnect, reads and writes of
   a UDPClient, isConnected and isClosed are not both true, and isConnected
   implies that the socket is there. *)
C34_ConnectedXorClosed ==
  UDPStep =>
    /\ ~(client.isConnected /\ client.isClosed)
    /\ client.isConnected => client.c # NilHandle

(* the second half alone *)
C34_ConnectedHasSocket ==
  UDPStep => (client.isConnected => client.c # NilHandle)

(* Connect, Close, Connect: connected to a new socket and still closed *)
C34_ConnectedAndClosed ==
  /\ UDPStep
  /\ call.op = "Connect" /\ ret.err = "nil"
  /\ client.isConnected /\ client.isClosed /\ IsOpen(peer, client.c)
  /\ Len(peer.handles) = 2

UDPIO == {"WriteWithDeadline", "ReadWithDeadline", "ReadWithDeadlineInto", "WriteThenRead"}

(* C35: a read or a write of a UDPClient that fails with a timeout or with
   the error of a closed socket closes the client; on a closed client
   WriteWithDeadline, ReadWithDeadline and WriteThenRead return net.ErrClosed
   and ask nothing of the socket; a failure of another kind leaves the client
   as it was, connected and not closed if it was so. *)
C35_TimeoutClosesClient ==
  [][(UDPStep' /\ call'.op \in UDPIO) =>
       /\ ret'.err \in {"timeout", "closed"} => client'.isClosed
       /\ client.isClosed =>
            (ret'.err = "closed" /\ nreq' = nreq /\ Reached' = Reached /\ client' = client)
       /\ ret'.err \notin {"nil", "timeout", "closed"} => client' = client]_vars

(* a WriteThenRead whose write went out and whose read met the deadline: the
   client is closed, its socket closed once *)
C35_Witness ==
  /\ UDPStep
  /\ call.op = "WriteThenRead" /\ ret.err = "timeout"
  /\ Len(tx) = 1 /\ rx = <<>> /\ nreq = 2
  /\ client.isClosed /\ ~client.isConnected /\ client.c = NilHandle
  /\ peer.handles[1].closes = 1

(* a call on the closed client came back with net.ErrClosed *)
C35_WitnessRefused ==
  /\ UDPStep
  /\ call.op = "WriteThenRead" /\ ret.err = "closed" /\ call.n = 3
  /\ client.isClosed /\ nreq = 1 /\ Reached = 0

(***************************************************************************)
(* Claims about concurrent WriteThenRead                                   *)
(***************************************************************************)
SeqStep == DOMAIN pc = Callers \cup {Closer} /\ "seqLock" \in DOMAIN client

(* between the write and the read of caller c nothing of another caller *)
WriteThenItsRead(c) ==
  \A i, k \in 1..Len(tx) :
    (i < k /\ tx[i].c = c /\ tx[k].c = c) => k = i + 1

InsideSequence(c) == pc[c] \in {"writeCheck", "write", "readCheck", "read", "unlock"}

Serialized ==
  \A c \in Callers :
    /\ WriteThenItsRead(c)
    /\ InsideSequence(c) => (client.seqLock = c /\ ret[c].locks = 1 /\ ret[c].unlocks = 0)
    /\ pc[c] = "done" => (ret[c].locks = ret[c].unlocks /\ client.seqLock # c)

(* C36: concurrent WriteThenRead calls of a UDPClient are serialized by
   seqLock: between a call's write and its read no other call writes or
   reads, the lock is released on every way out, and a Close beside them
   never has a running WriteThenRead use a socket that was cleared. *)
C36_WriteThenReadSerialized ==
  SeqStep => (Serialized /\ \A c \in Callers : ~ret[c].nilUse)

(* the part about the lock alone *)
C36_LockDiscipline == SeqStep => Serialized

(* a WriteThenRead whose write went out, whose read found isClosed false and
   then a nil socket, Close having run between the test and the call *)
C36_ClearedSocketUsed ==
  /\ SeqStep
  /\ pc[Closer] = "done"
  /\ \E c \in Callers :
       /\ pc[c] = "done" /\ ret[c].nilUse /\ ret[c].err \in NilConn
       /\ \E i \in 1..Len(tx) : tx[i] = [c |-> c, kind |-> "write"]
       /\ \A i \in 1..Len(tx) : tx[i] # [c |-> c, kind |-> "read"]

(***************************************************************************)
(* Claims about the responses of the FX Pak Pro's MultiDomainRead          *)
(***************************************************************************)
DeviceReadSucceeded ==
  /\ pc = "returned" /\ call.op = "Device.MultiDomainRead"
  /\ ret.invoked /\ ret.err.kind = "nil" /\ ~ret.panic

(* the place of read j of group i when the groups are laid end to end *)
RECURSIVE EntriesBefore(_)
EntriesBefore(i) ==
  IF i <= 1 THEN 0 ELSE Len(call.requests[i - 1].entries) + EntriesBefore(i - 1)

FlatPlace(i, j) == EntriesBefore(i) + j

(* the description a reference designates: by its type, or by its name in
   capitals when the type is the core-specific one *)
Designates(ref, d) ==
  IF ref.type = CoreSpecific THEN ~ref.nameNil /\ domainDescs[d].name = ToUpper(ref.name)
  ELSE domainDescs[d].type = ref.type

(* C37: when the FX Pak Pro's MultiDomainRead succeeds, Responses[i].Reads[j]
   has, for every group i and read j in request order, the address that was
   requested, relative to the domain, and the data MultiReadMemory returned
   for the pak address start of the domain + address: read j of group i is the
   k-th request, groups laid end to end, and takes the k-th response; the
   domain is found by its type, or by its name in capitals when the type is
   the core-specific one. *)
C37_ReadsInRequestOrder ==
  DeviceReadSucceeded =>
    /\ Len(ret.rsp) = Len(call.requests)
    /\ \A i \in 1..Len(call.requests) :
         /\ Designates(call.requests[i].domain, ret.rsp[i].domain)
         /\ Len(ret.rsp[i].reads) = Len(call.requests[i].entries)
         /\ \A j \in 1..Len(call.requests[i].entries) :
              LET k == FlatPlace(i, j)
                  read == call.requests[i].entries[j]
              IN /\ ret.rsp[i].reads[j].address = read.address
                 /\ ret.mreqs[k].address =
                      Add32(uint32(domainDescs[ret.rsp[i].domain].start), read.address)
                 /\ ret.mreqs[k].size = read.size
                 /\ k <= Len(ret.mrsp) => ret.rsp[i].reads[j].data = ret.mrsp[k].data
                 /\ k > Len(ret.mrsp) => ret.rsp[i].reads[j].data = NilData

(* two groups, the second one named fxpakpro_cmd with three reads: its second
   read is the third request and has the third response *)
C37_Witness ==
  /\ DeviceReadSucceeded
  /\ Len(call.requests) = 2
  /\ call.requests[1].domain = WorkRAMRef
  /\ call.requests[2].domain.type = CoreSpecific
  /\ Len(call.requests[2].entries) = 3
  /\ Len(ret.mrsp) = 4
  /\ ret.rsp[2].domain = 9
  /\ ret.rsp[2].reads[2].data = MemoryData(3)
  /\ ret.mreqs[3].address = Add32(uint32(domainDescs[9].start), call.requests[2].entries[2].address)

(***************************************************************************)
(* Claims about the domains DriverConfig leaves behind                     *)
(***************************************************************************)
ConfigReturned ==
  /\ pc = "returned" /\ call.hasDriver /\ call.hasSnes /\ ~call.decodeFails

(* the elements of allDomains *)
AllDomains == ret.heap[ret.allDomains].elems

(* the last entry of the driver's configuration with this name *)
LastConf(n) ==
  LET at == {i \in 1..Len(call.domains) : ToLower(call.domains[i].name) = n}
  IN call.domains[CHOOSE i \in at : \A k \in at : k <= i]

(* C38: after DriverConfig every entry of domainByName designates the element
   of allDomains with the same name in lower case, and so what the driver's
   configuration sets through domainByName shows in allDomains, in whatever
   order platform domains and new core-specific domains are configured. *)
C38_DomainByNameDesignatesAllDomains ==
  ConfigReturned =>
    \A n \in DOMAIN ret.domainByName :
      LET d == ret.domainByName[n]
      IN /\ d.arr = ret.allDomains
         /\ ToLower(AllDomains[d.idx].name) = n
         /\ (\E i \in 1..Len(call.domains) : ToLower(call.domains[i].name) = n) =>
              /\ AllDomains[d.idx].exposed
              /\ AllDomains[d.idx].writeable = LastConf(n).writeable
              /\ AllDomains[d.idx].readable = LastConf(n).readable
              /\ AllDomains[d.idx].start = LastConf(n).start
              /\ AllDomains[d.idx].space = LastConf(n).space

(* the platform has WRAM; the driver configures a new domain and then wram:
   WRAM is not exposed in allDomains *)
C38_OverrideLost ==
  /\ ConfigReturned
  /\ Len(call.platform) = 1 /\ call.platform[1].name = ConfWRAM
  /\ Len(call.domains) = 2
  /\ call.domains[1].name = <<88>>
  /\ call.domains[2].name = ToLower(ConfWRAM)
  /\ ret.domainByName[ToLower(ConfWRAM)].arr # ret.allDomains
  /\ AllDomains[1].name = ConfWRAM
  /\ ~AllDomains[1].exposed

====
